---- MODULE Spec2Model ----
(***************************************************************************)
(* The card board of vystal/card-world: the card store and interaction     *)
(* controller (src/cards.js), the history manager (src/undoredo.js), the   *)
(* editing panel (src/sidebar.js) and the application's event handlers     *)
(* (src/unnamed/part_000, src/storage.js).                                  *)
(*                                                                         *)
(* Every method of the program is an operator that maps the program state  *)
(* (the record Cur of all fields) to the state after the call; an action   *)
(* is one event handler, composed of the calls the handler makes.          *)
(*                                                                         *)
(* JavaScript values: null and undefined ids are 0 (the code tests ids by  *)
(* truthiness), the height 'auto' is 0 (a numeric height is positive),     *)
(* a Map or a Set is a sequence in insertion order.  A card object held   *)
(* somewhere else than in cardManager.cards carries obj = "live" when it   *)
(* is the very object stored in the map under its id (a write to one is a  *)
(* write to the other), and obj = "copy" when it is an object of its own.  *)
(***************************************************************************)
EXTENDS Integers, Sequences, FiniteSets, TLC

\* ---------------------------------------------------------------- constants
maxHistorySize == 50
SNAP_DISTANCE == 5
NULL == 0
Auto == 0
DefaultWidth == 300
DuplicateOffset == 20
WidthNoise == 5
NewCardX == -150
NewCardY == -75

\* ------------------------------------------------------------------- bounds
\* ids are handed out up to MaxId; a history of the main specification holds
\* at most MaxHist entries; a session
\* of the main specification is any sequence of at most MaxSteps events.
MaxId == 2
MaxHist == 3
MaxSteps == 5
\* The timed specification counts time in ticks; both debounce delays (the
\* panel's and the history manager's, 1000 ms each) last TicksPerDelay ticks.
TicksPerDelay == 2

\* The inputs of the handlers.
PointerXs == {0, 18}
PointerYs == {0}
Pointers == { [x |-> px, y |-> py] : px \in PointerXs, py \in PointerYs }
WidthInputs == {300, 320}
HeightInputs == {Auto, 100}
EditContents == {"a"}
BurstContents == {"a", "w"}
Faults == {"remove", "create", "storage"}
ImportFiles ==
    { [valid |-> FALSE, cards |-> <<>>],
      [valid |-> TRUE,
       cards |-> << [id |-> 1, x |-> 0, y |-> 0, width |-> 300, height |-> Auto,
                     content |-> "w"] >>],
      [valid |-> TRUE,
       cards |-> << [id |-> 2, x |-> 40, y |-> 40, width |-> 300, height |-> Auto,
                     content |-> "w"],
                    [id |-> -1, x |-> 0, y |-> 0, width |-> 0, height |-> 0,
                     content |-> ""] >>] }

VARIABLES
    cards, nextId, activeCard, selectedCards, isCtrlPressed,
    isDraggingCard, draggedCard, dragOffset, multiDragOffsets,
    history, currentIndex, isPerformingUndoRedo, pendingDragOperation,
    contentChangeTimeout,
    isOpen, currentCard, lastSavedContent, sidebarTimeout,
    pendingImport, log, linPhase, steps,
    sidebarLeft, contentLeft, burst, everIds,
    autoSaveTimeout, persisted, debounce, world

vars == << cards, nextId, activeCard, selectedCards, isCtrlPressed,
           isDraggingCard, draggedCard, dragOffset, multiDragOffsets,
           history, currentIndex, isPerformingUndoRedo, pendingDragOperation,
           contentChangeTimeout,
           isOpen, currentCard, lastSavedContent, sidebarTimeout,
           pendingImport, log, linPhase, steps,
           sidebarLeft, contentLeft, burst, everIds,
           autoSaveTimeout, persisted, debounce, world >>

\* The program state as one record: what a method reads and returns.
Cur ==
    [ cards |-> cards, nextId |-> nextId, activeCard |-> activeCard,
      selectedCards |-> selectedCards, isCtrlPressed |-> isCtrlPressed,
      isDraggingCard |-> isDraggingCard, draggedCard |-> draggedCard,
      dragOffset |-> dragOffset, multiDragOffsets |-> multiDragOffsets,
      history |-> history, currentIndex |-> currentIndex,
      isPerformingUndoRedo |-> isPerformingUndoRedo,
      pendingDragOperation |-> pendingDragOperation,
      contentChangeTimeout |-> contentChangeTimeout,
      isOpen |-> isOpen, currentCard |-> currentCard,
      lastSavedContent |-> lastSavedContent, sidebarTimeout |-> sidebarTimeout,
      pendingImport |-> pendingImport,
      autoSaveTimeout |-> autoSaveTimeout, persisted |-> persisted,
      log |-> <<>>, fault |-> "none" ]

\* ------------------------------------------------------- Map and Set values
Range(q) == { q[i] : i \in 1..Len(q) }

MapKeys(m) == { m[i].id : i \in 1..Len(m) }

MapHas(m, id) == id \in MapKeys(m)

MapGet(m, id) == m[CHOOSE i \in 1..Len(m) : m[i].id = id]

MapSet(m, c) ==
    IF MapHas(m, c.id)
    THEN [i \in 1..Len(m) |-> IF m[i].id = c.id THEN c ELSE m[i]]
    ELSE Append(m, c)

MapDelete(m, id) == SelectSeq(m, LAMBDA c : c.id # id)

SetAdd(q, e) == IF e \in Range(q) THEN q ELSE Append(q, e)

SetDelete(q, e) == SelectSeq(q, LAMBDA x : x # e)

\* --------------------------------------------------------------- card objects
Card(id, x, y, width, height, content) ==
    [id |-> id, x |-> x, y |-> y, width |-> width, height |-> height,
     content |-> content]

\* A reference to a card object held outside the map.
Holder(c, obj) ==
    [obj |-> obj, id |-> c.id, x |-> c.x, y |-> c.y, width |-> c.width,
     height |-> c.height, content |-> c.content]

NoCard == [obj |-> "none", id |-> NULL, x |-> 0, y |-> 0, width |-> 0,
           height |-> 0, content |-> ""]

Plain(h) == Card(h.id, h.x, h.y, h.width, h.height, h.content)

\* One property assignment on a card object.
SetField(c, field, value) ==
    CASE field = "x" -> [c EXCEPT !.x = value]
      [] field = "y" -> [c EXCEPT !.y = value]
      [] field = "width" -> [c EXCEPT !.width = value]
      [] field = "height" -> [c EXCEPT !.height = value]
      [] field = "content" -> [c EXCEPT !.content = value]

\* What the history manager calls since the handler began (an observation of
\* the run, not a field of the program).
Log(s, e) == [s EXCEPT !.log = Append(@, e)]

\* A write to the live card object id reaches every holder of that object.
WriteSnapshot(st, id, field, value) ==
    [st EXCEPT !.cards =
        [k \in DOMAIN st.cards |->
            IF k = id /\ st.cards[k].obj = "live"
            THEN SetField(st.cards[k], field, value) ELSE st.cards[k]]]

WriteLive(s, id, field, value) ==
    [s EXCEPT
        !.cards = [i \in 1..Len(s.cards) |->
            IF s.cards[i].id = id THEN SetField(s.cards[i], field, value)
            ELSE s.cards[i]],
        !.currentCard =
            IF s.currentCard.obj = "live" /\ s.currentCard.id = id
            THEN SetField(s.currentCard, field, value) ELSE s.currentCard,
        !.autoSaveTimeout.cards = [i \in 1..Len(@) |->
            IF @[i].obj = "live" /\ @[i].id = id
            THEN SetField(@[i], field, value) ELSE @[i]],
        !.history = [i \in 1..Len(s.history) |->
            [s.history[i] EXCEPT !.state = WriteSnapshot(@, id, field, value)]]]

\* The objects in ids leave the map: whoever still holds one holds an object
\* that the map no longer reaches.
DetachSnapshot(st, ids) ==
    [st EXCEPT !.cards =
        [k \in DOMAIN st.cards |->
            IF k \in ids /\ st.cards[k].obj = "live"
            THEN [st.cards[k] EXCEPT !.obj = "copy"] ELSE st.cards[k]]]

Detach(s, ids) ==
    [s EXCEPT
        !.currentCard =
            IF s.currentCard.obj = "live" /\ s.currentCard.id \in ids
            THEN [s.currentCard EXCEPT !.obj = "copy"] ELSE s.currentCard,
        !.autoSaveTimeout.cards = [i \in 1..Len(@) |->
            IF @[i].obj = "live" /\ @[i].id \in ids
            THEN [@[i] EXCEPT !.obj = "copy"] ELSE @[i]],
        !.history = [i \in 1..Len(s.history) |->
            [s.history[i] EXCEPT !.state = DetachSnapshot(@, ids)]]]

\* -------------------------------------------------------------------- storage
\* The auto-save timer and the array of card objects its callback will
\* write; the item of localStorage, as far as its card list goes.
NoAutoSave == [pending |-> FALSE, cards |-> <<>>, left |-> 0, stale |-> <<>>]

NothingStored == [saved |-> FALSE, cards |-> <<>>]

\* Array.from(this.cards.values()): a new array of the card objects of the map.
getAllCards(s) == [i \in 1..Len(s.cards) |-> Holder(s.cards[i], "live")]

\* saveCards(cards) without the clearTimeout: the timer that was pending
\* stays so, out of reach of the handle.
saveCardsKeepingTimer(s, list) ==
    Log([s EXCEPT !.autoSaveTimeout =
            [pending |-> TRUE, cards |-> list, left |-> TicksPerDelay,
             stale |-> IF s.autoSaveTimeout.pending
                       THEN Append(s.autoSaveTimeout.stale,
                                   [cards |-> s.autoSaveTimeout.cards,
                                    left |-> s.autoSaveTimeout.left])
                       ELSE s.autoSaveTimeout.stale]],
        "saveCards")

\* saveCards(cards): the timer of the handle is cleared and a new one set,
\* due after the delay; nothing is written yet.  stale holds the timers
\* that are pending out of reach of the handle.
saveCards(s, list) ==
    Log([s EXCEPT !.autoSaveTimeout =
            [pending |-> TRUE, cards |-> list, left |-> TicksPerDelay,
             stale |-> s.autoSaveTimeout.stale]],
        "saveCards")

\* saveData({cards, worldState}): the list is serialised as it is now.
saveData(s, list) ==
    [s EXCEPT !.persisted =
        [saved |-> TRUE, cards |-> [i \in 1..Len(list) |-> Plain(list[i])]]]

\* The callback of the auto-save timer of the handle.
autoSaveCallback(s) ==
    saveData(Log([s EXCEPT !.autoSaveTimeout =
                     [NoAutoSave EXCEPT !.stale = s.autoSaveTimeout.stale]],
                 "autoSave"),
             s.autoSaveTimeout.cards)

\* The callback of timer k: the handle's for k = 0, else the k-th of the
\* timers out of reach of the handle.
timerCallback(s, k) ==
    IF k = 0 THEN autoSaveCallback(s)
    ELSE saveData(Log([s EXCEPT !.autoSaveTimeout.stale =
                          SubSeq(@, 1, k - 1) \o SubSeq(@, k + 1, Len(@))],
                      "autoSave"),
                  s.autoSaveTimeout.stale[k].cards)

\* The timers that are pending, and those of them that are due.
pendingTimers(s) ==
    (IF s.autoSaveTimeout.pending THEN {0} ELSE {}) \cup DOMAIN s.autoSaveTimeout.stale

timerLeft(s, k) ==
    IF k = 0 THEN s.autoSaveTimeout.left ELSE s.autoSaveTimeout.stale[k].left

\* The delay runs: every pending timer is one tick nearer.
tick(s) ==
    Log([s EXCEPT !.autoSaveTimeout.left = IF s.autoSaveTimeout.pending THEN @ - 1 ELSE @,
                  !.autoSaveTimeout.stale =
                      [i \in DOMAIN @ |-> [@[i] EXCEPT !.left = @ - 1]]],
        "tick")

clearData(s) == [s EXCEPT !.persisted = NothingStored]

\* ------------------------------------------------- history manager (part 1)
\* A snapshot that keeps the card objects of the map instead of copies.
captureSharingCards(s) ==
    [ cards |-> [id \in MapKeys(s.cards) |-> Holder(MapGet(s.cards, id), "live")],
      selectedCards |-> s.selectedCards,
      activeCard |-> s.activeCard ]

\* The snapshot a history entry stores: every card copied field by field, the
\* selection copied, the active id.
captureCurrentState(s) ==
    [ cards |-> [id \in MapKeys(s.cards) |-> Holder(MapGet(s.cards, id), "copy")],
      selectedCards |-> s.selectedCards,
      activeCard |-> s.activeCard ]

NoData == [cardIds |-> <<>>]

\* saveState without the removal of the entries after the current index.
saveStateKeepingBranch(s, operation, data) ==
    IF s.isPerformingUndoRedo THEN Log(s, "saveState:suppressed")
    ELSE
        LET historyEntry == [operation |-> operation,
                             state |-> captureCurrentState(s),
                             data |-> data]
            pushed == Append(s.history, historyEntry)
            index == s.currentIndex + 1
            s1 == IF Len(pushed) > maxHistorySize
                  THEN [s EXCEPT !.history = Tail(pushed), !.currentIndex = index - 1]
                  ELSE [s EXCEPT !.history = pushed, !.currentIndex = index]
        IN Log(s1, "saveState")

\* saveState that evicts the oldest entry and leaves the index where the
\* append put it.
saveStateNoShift(s, operation, data) ==
    IF s.isPerformingUndoRedo THEN Log(s, "saveState:suppressed")
    ELSE
        LET historyEntry == [operation |-> operation,
                             state |-> captureCurrentState(s),
                             data |-> data]
            kept == IF s.currentIndex < Len(s.history) - 1
                    THEN SubSeq(s.history, 1, s.currentIndex + 1)
                    ELSE s.history
            pushed == Append(kept, historyEntry)
            index == s.currentIndex + 1
            s1 == IF Len(pushed) > maxHistorySize
                  THEN [s EXCEPT !.history = Tail(pushed), !.currentIndex = index]
                  ELSE [s EXCEPT !.history = pushed, !.currentIndex = index]
        IN Log(s1, "saveState")

saveState(s, operation, data) ==
    IF s.isPerformingUndoRedo THEN Log(s, "saveState:suppressed")
    ELSE
        LET historyEntry == [operation |-> operation,
                             state |-> captureCurrentState(s),
                             data |-> data]
            truncates == s.currentIndex < Len(s.history) - 1
            kept == IF truncates
                    THEN SubSeq(s.history, 1, s.currentIndex + 1)
                    ELSE s.history
            pushed == Append(kept, historyEntry)
            index == s.currentIndex + 1
            evicts == Len(pushed) > maxHistorySize
            s1 == IF evicts
                  THEN [s EXCEPT !.history = Tail(pushed), !.currentIndex = index - 1]
                  ELSE [s EXCEPT !.history = pushed, !.currentIndex = index]
            s2 == IF truncates THEN Log(s1, "truncate") ELSE s1
            s3 == IF evicts THEN Log(s2, "evict") ELSE s2
        IN Log(s3, "saveState")

NoDrag == [operation |-> "none", cardIds |-> <<>>, startPositions |-> <<>>]

saveDragState(s, operation, cardIds, startPositions) ==
    IF s.isPerformingUndoRedo THEN s
    ELSE [s EXCEPT !.pendingDragOperation =
            [operation |-> operation, cardIds |-> cardIds,
             startPositions |-> startPositions]]

Pos(c) == [x |-> c.x, y |-> c.y]

\* finalPositions of finishDragOperation: the dragged ids still on the board.
finalPositionsOf(s) ==
    LET ids == Range(s.pendingDragOperation.cardIds) \cap MapKeys(s.cards)
    IN [id \in ids |-> Pos(MapGet(s.cards, id))]

hasChanged(s) ==
    LET p == s.pendingDragOperation
        final == finalPositionsOf(s)
    IN \E id \in Range(p.cardIds) :
          /\ id \in DOMAIN p.startPositions
          /\ id \in DOMAIN final
          /\ p.startPositions[id] # final[id]

\* finishDragOperation without the comparison of the positions.
finishDragAlways(s) ==
    IF s.pendingDragOperation.operation # "none" /\ ~s.isPerformingUndoRedo
    THEN
        LET p == s.pendingDragOperation
        IN [saveState(s, p.operation,
                      [cardIds |-> p.cardIds,
                       startPositions |-> p.startPositions,
                       finalPositions |-> finalPositionsOf(s)])
              EXCEPT !.pendingDragOperation = NoDrag]
    ELSE s

finishDragOperation(s) ==
    IF s.pendingDragOperation.operation # "none" /\ ~s.isPerformingUndoRedo
    THEN
        LET p == s.pendingDragOperation
            s1 == IF hasChanged(s)
                  THEN saveState(s, p.operation,
                                 [cardIds |-> p.cardIds,
                                  startPositions |-> p.startPositions,
                                  finalPositions |-> finalPositionsOf(s)])
                  ELSE s
        IN [s1 EXCEPT !.pendingDragOperation = NoDrag]
    ELSE s

NoTimer == [pending |-> FALSE, cardId |-> NULL, oldContent |-> "", newContent |-> ""]

\* The debounce timer of the history manager holds the arguments of the call
\* that set it; setting it clears the one before.
saveContentState(s, cardId, oldContent, newContent) ==
    IF s.isPerformingUndoRedo THEN Log(s, "saveContentState:suppressed")
    ELSE Log([s EXCEPT !.contentChangeTimeout =
                [pending |-> TRUE, cardId |-> cardId,
                 oldContent |-> oldContent, newContent |-> newContent]],
             "saveContentState")

\* The timer's callback.
contentTimerCallback(s) ==
    LET t == s.contentChangeTimeout
        s1 == IF t.oldContent # t.newContent
              THEN saveState(s, "content_change",
                             [cardId |-> t.cardId, oldContent |-> t.oldContent,
                              newContent |-> t.newContent])
              ELSE s
    IN [s1 EXCEPT !.contentChangeTimeout = NoTimer]

canUndo(s) == s.currentIndex > 0

canRedo(s) == s.currentIndex < Len(s.history) - 1

\* -------------------------------------------------------------- editing panel
\* Sidebar.open(cardData) with cardData = cards.get(id). For an id that is not
\* on the board cardData is undefined and reading its content throws.
sidebarOpen(s, id) ==
    IF MapHas(s.cards, id)
    THEN [s EXCEPT !.isOpen = TRUE,
                   !.currentCard = Holder(MapGet(s.cards, id), "live"),
                   !.lastSavedContent = MapGet(s.cards, id).content]
    ELSE Log([s EXCEPT !.isOpen = TRUE, !.currentCard = NoCard], "throw:open")

sidebarClose(s) ==
    LET s1 == IF s.sidebarTimeout # "null"
              THEN LET c == [s EXCEPT !.sidebarTimeout = "null"]
                   IN IF s.currentCard.obj # "none"
                         /\ s.lastSavedContent # s.currentCard.content
                      THEN saveContentState(c, s.currentCard.id,
                                            s.lastSavedContent, s.currentCard.content)
                      ELSE c
              ELSE s
    IN [s1 EXCEPT !.isOpen = FALSE, !.currentCard = NoCard,
                  !.lastSavedContent = "", !.activeCard = NULL]

\* saveContentStateDebounced: the panel's own timer; its callback leaves the
\* timer id in place ("fired").
saveContentStateDebounced(s) ==
    Log([s EXCEPT !.sidebarTimeout = "pending"], "saveContentStateDebounced")

sidebarTimerCallback(s) ==
    LET s1 == [s EXCEPT !.sidebarTimeout = "fired"]
    IN IF s.currentCard.obj # "none" /\ s.lastSavedContent # s.currentCard.content
       THEN [saveContentState(s1, s.currentCard.id, s.lastSavedContent,
                              s.currentCard.content)
                EXCEPT !.lastSavedContent = s.currentCard.content]
       ELSE s1

\* this.currentCard.<field> = value in the panel's handlers.
writeCurrentCard(s, field, value) ==
    IF s.currentCard.obj = "live"
    THEN WriteLive(s, s.currentCard.id, field, value)
    ELSE [s EXCEPT !.currentCard = SetField(@, field, value)]

\* --------------------------------------------------------------- card manager
\* createCard(data): data carries every field; data.id = NULL when the caller
\* gives no id. The object stored is a new one.
createCardId(s, data) == IF data.id # NULL THEN data.id ELSE s.nextId

createCard(s, data) ==
    LET id == createCardId(s, data)
        counter == IF data.id # NULL THEN s.nextId ELSE s.nextId + 1
        cardData == Card(id, data.x, data.y, data.width, data.height, data.content)
        s1 == Detach(s, {id} \cap MapKeys(s.cards))
    IN [s1 EXCEPT !.cards = MapSet(s.cards, cardData),
                  !.nextId = IF id >= counter THEN id + 1 ELSE counter]

clearSelection(s) ==
    sidebarClose([s EXCEPT !.selectedCards = <<>>, !.activeCard = NULL])

\* clearMultiSelection without the test of the size of the selection.
clearMultiSelectionAlways(s) ==
    [s EXCEPT !.selectedCards =
        IF s.activeCard # NULL THEN <<s.activeCard>> ELSE <<>>]

clearMultiSelection(s) ==
    IF Len(s.selectedCards) > 1
    THEN [s EXCEPT !.selectedCards =
            IF s.activeCard # NULL THEN <<s.activeCard>> ELSE <<>>]
    ELSE s

\* selectCard whose single select adds to the selection instead of replacing it.
selectCardKeepingOthers(s, cardId, isMultiSelect) ==
    LET s1 ==
          IF isMultiSelect
          THEN IF cardId \in Range(s.selectedCards)
               THEN LET remainingSelected == SetDelete(s.selectedCards, cardId)
                    IN [s EXCEPT
                          !.selectedCards = remainingSelected,
                          !.activeCard =
                              IF s.activeCard = cardId
                              THEN IF Len(remainingSelected) > 0
                                   THEN remainingSelected[1] ELSE NULL
                              ELSE s.activeCard]
               ELSE [s EXCEPT !.selectedCards = SetAdd(@, cardId),
                              !.activeCard = cardId]
          ELSE [sidebarClose(s) EXCEPT !.selectedCards = SetAdd(@, cardId),
                                       !.activeCard = cardId]
    IN IF s1.activeCard # NULL THEN sidebarOpen(s1, s1.activeCard) ELSE s1

\* selectCard whose toggle hands the activity to the last remaining card.
selectCardLastRemaining(s, cardId, isMultiSelect) ==
    LET s1 ==
          IF isMultiSelect
          THEN IF cardId \in Range(s.selectedCards)
               THEN LET remainingSelected == SetDelete(s.selectedCards, cardId)
                    IN [s EXCEPT
                          !.selectedCards = remainingSelected,
                          !.activeCard =
                              IF s.activeCard = cardId
                              THEN IF Len(remainingSelected) > 0
                                   THEN remainingSelected[Len(remainingSelected)]
                                   ELSE NULL
                              ELSE s.activeCard]
               ELSE [s EXCEPT !.selectedCards = SetAdd(@, cardId),
                              !.activeCard = cardId]
          ELSE [clearSelection(s) EXCEPT !.selectedCards = <<cardId>>,
                                         !.activeCard = cardId]
    IN IF s1.activeCard # NULL THEN sidebarOpen(s1, s1.activeCard) ELSE s1

selectCard(s, cardId, isMultiSelect) ==
    LET s1 ==
          IF isMultiSelect
          THEN IF cardId \in Range(s.selectedCards)
               THEN LET remainingSelected == SetDelete(s.selectedCards, cardId)
                    IN [s EXCEPT
                          !.selectedCards = remainingSelected,
                          !.activeCard =
                              IF s.activeCard = cardId
                              THEN IF Len(remainingSelected) > 0
                                   THEN remainingSelected[1] ELSE NULL
                              ELSE s.activeCard]
               ELSE [s EXCEPT !.selectedCards = SetAdd(@, cardId),
                              !.activeCard = cardId]
          ELSE [clearSelection(s) EXCEPT !.selectedCards = <<cardId>>,
                                         !.activeCard = cardId]
    IN IF s1.activeCard # NULL THEN sidebarOpen(s1, s1.activeCard) ELSE s1

\* updateCard(id, {field: value}) as the panel calls it, one field at a time.
updateCard(s, id, field, value) ==
    IF ~MapHas(s.cards, id) THEN Log(s, "updateCard:unknown")
    ELSE
        LET oldData == MapGet(s.cards, id)
            s1 == WriteLive(s, id, field, value)
            d == oldData.width - value
            s2 == CASE field = "width" ->
                  IF (IF d < 0 THEN -d ELSE d) > WidthNoise
                  THEN saveState(s1, "resize_card",
                                 [cardId |-> id, oldWidth |-> oldData.width,
                                  newWidth |-> value])
                  ELSE s1
             [] field = "height" ->
                  IF oldData.height # value
                  THEN saveState(s1, "resize_card",
                                 [cardId |-> id, oldHeight |-> oldData.height,
                                  newHeight |-> value])
                  ELSE s1
             [] OTHER -> s1
        IN saveCards(s2, getAllCards(s2))

\* deleteCard without the removal from the selection.
deleteCardKeepingSelection(s, id) ==
    LET s0 == IF MapHas(s.cards, id) THEN s ELSE Log(s, "deleteCard:unknown")
        s1 == [Detach(s0, {id} \cap MapKeys(s.cards)) EXCEPT
                  !.cards = MapDelete(@, id)]
        s2 == IF s1.activeCard = id
              THEN sidebarClose([s1 EXCEPT !.activeCard = NULL])
              ELSE s1
    IN saveCards(s2, getAllCards(s2))

\* deleteCard without the request to persist the board.
deleteCardUnsaved(s, id) ==
    LET s0 == IF MapHas(s.cards, id) THEN s ELSE Log(s, "deleteCard:unknown")
        s1 == [Detach(s0, {id} \cap MapKeys(s.cards)) EXCEPT
                  !.cards = MapDelete(@, id),
                  !.selectedCards = SetDelete(@, id)]
    IN IF s1.activeCard = id
       THEN sidebarClose([s1 EXCEPT !.activeCard = NULL])
       ELSE s1

deleteCard(s, id) ==
    LET s0 == IF MapHas(s.cards, id) THEN s ELSE Log(s, "deleteCard:unknown")
        s1 == [Detach(s0, {id} \cap MapKeys(s.cards)) EXCEPT
                  !.cards = MapDelete(@, id),
                  !.selectedCards = SetDelete(@, id)]
        s2 == IF s1.activeCard = id
              THEN sidebarClose([s1 EXCEPT !.activeCard = NULL])
              ELSE s1
    IN saveCards(s2, getAllCards(s2))

\* duplicateCard that offsets the copy on one axis only.
duplicateCardOffsetX(s, id) ==
    IF ~MapHas(s.cards, id) THEN Log(s, "duplicateCard:unknown")
    ELSE
        LET originalCard == MapGet(s.cards, id)
            duplicateData == [originalCard EXCEPT
                                 !.id = s.nextId,
                                 !.x = originalCard.x + DuplicateOffset]
            s1 == createCard([s EXCEPT !.nextId = @ + 1], duplicateData)
        IN selectCard(saveCards(s1, getAllCards(s1)), duplicateData.id, FALSE)

duplicateCard(s, id) ==
    IF ~MapHas(s.cards, id) THEN Log(s, "duplicateCard:unknown")
    ELSE
        LET originalCard == MapGet(s.cards, id)
            duplicateData == [originalCard EXCEPT
                                 !.id = s.nextId,
                                 !.x = originalCard.x + DuplicateOffset,
                                 !.y = originalCard.y + DuplicateOffset]
            s1 == createCard([s EXCEPT !.nextId = @ + 1], duplicateData)
        IN selectCard(saveCards(s1, getAllCards(s1)), duplicateData.id, FALSE)

\* An entry of a card list that is null: createCard(null) throws on data.id.
NullEntry == Card(-1, 0, 0, 0, 0, "")

\* cardsData.forEach(cardData => this.createCard(cardData)): a throw ends it.
RECURSIVE createAll(_, _)
createAll(s, cardsData) ==
    IF cardsData = <<>> THEN s
    ELSE IF Head(cardsData) = NullEntry THEN Log(s, "throw")
    ELSE createAll(createCard(s, Head(cardsData)), Tail(cardsData))

\* loadCards that starts the id counter again.
loadCardsResettingIds(s, cardsData) ==
    createAll(Log([Detach(s, MapKeys(s.cards)) EXCEPT !.cards = <<>>,
                                                       !.selectedCards = <<>>,
                                                       !.nextId = 1],
                  "loadCards"),
              cardsData)

loadCards(s, cardsData) ==
    createAll(Log([Detach(s, MapKeys(s.cards)) EXCEPT !.cards = <<>>,
                                                       !.selectedCards = <<>>],
                  "loadCards"),
              cardsData)

\* addNewCard: the new card is centred in the visible bounds.
addNewCard(s) ==
    LET s1 == saveState(s, "create_card", NoData)
        data == Card(NULL, NewCardX, NewCardY, DefaultWidth, Auto, "n")
        s2 == createCard(s1, data)
    IN selectCard(saveCards(s2, getAllCards(s2)), createCardId(s1, data), FALSE)

\* ------------------------------------------------------------------- dragging
Abs(n) == IF n < 0 THEN -n ELSE n

\* element.offsetHeight of a card's element: the rendered height, which for
\* an auto-height card follows its content.
offsetHeight(c) ==
    IF c.height # Auto THEN c.height
    ELSE IF c.content = "a" THEN 60 ELSE 100

NoLine == [set |-> FALSE, at |-> 0]

\* The forEach that snaps at a distance of SNAP_DISTANCE too.
RECURSIVE snapAlignmentsInclusive(_, _, _)
snapAlignmentsInclusive(best, aligns, base) ==
    IF aligns = <<>> THEN best
    ELSE
        LET align == Head(aligns)
            dist == Abs(align.draggedPos - align.targetPos)
            next == IF dist <= SNAP_DISTANCE /\ dist < best.min
                    THEN [min |-> dist,
                          pos |-> base + (align.targetPos - align.draggedPos),
                          line |-> [set |-> TRUE, at |-> align.snapLine]]
                    ELSE best
        IN snapAlignmentsInclusive(next, Tail(aligns), base)

\* The forEach in which a later alignment of equal distance replaces an
\* earlier one.
RECURSIVE snapAlignmentsLastWins(_, _, _)
snapAlignmentsLastWins(best, aligns, base) ==
    IF aligns = <<>> THEN best
    ELSE
        LET align == Head(aligns)
            dist == Abs(align.draggedPos - align.targetPos)
            next == IF dist < SNAP_DISTANCE /\ dist <= best.min
                    THEN [min |-> dist,
                          pos |-> base + (align.targetPos - align.draggedPos),
                          line |-> [set |-> TRUE, at |-> align.snapLine]]
                    ELSE best
        IN snapAlignmentsLastWins(next, Tail(aligns), base)

\* One forEach over the four alignments of an axis: best = [min, pos, line].
RECURSIVE snapAlignments(_, _, _)
snapAlignments(best, aligns, base) ==
    IF aligns = <<>> THEN best
    ELSE
        LET align == Head(aligns)
            dist == Abs(align.draggedPos - align.targetPos)
            next == IF dist < SNAP_DISTANCE /\ dist < best.min
                    THEN [min |-> dist,
                          pos |-> base + (align.targetPos - align.draggedPos),
                          line |-> [set |-> TRUE, at |-> align.snapLine]]
                    ELSE best
        IN snapAlignments(next, Tail(aligns), base)

Align(d, t, l) == [draggedPos |-> d, targetPos |-> t, snapLine |-> l]

RECURSIVE snapCards(_, _, _, _, _, _)
snapCards(m, x, y, dragged, excludeCards, best) ==
    IF m = <<>> THEN best
    ELSE
        LET cardData == Head(m)
            cardHeight == offsetHeight(cardData)
            draggedHeight == offsetHeight(dragged)
            xAlignments ==
                << Align(x, cardData.x, cardData.x),
                   Align(x, cardData.x + cardData.width, cardData.x + cardData.width),
                   Align(x + dragged.width, cardData.x, cardData.x),
                   Align(x + dragged.width, cardData.x + cardData.width,
                         cardData.x + cardData.width) >>
            yAlignments ==
                << Align(y, cardData.y, cardData.y),
                   Align(y, cardData.y + cardHeight, cardData.y + cardHeight),
                   Align(y + draggedHeight, cardData.y, cardData.y),
                   Align(y + draggedHeight, cardData.y + cardHeight,
                         cardData.y + cardHeight) >>
            next == IF cardData.id \in excludeCards THEN best
                    ELSE [x |-> snapAlignments(best.x, xAlignments, x),
                          y |-> snapAlignments(best.y, yAlignments, y)]
        IN snapCards(Tail(m), x, y, dragged, excludeCards, next)

\* applySnapping(x, y, draggedCardData, excludeCards) over this.cards.
applySnapping(s, x, y, draggedCardData, excludeCards) ==
    LET start == [x |-> [min |-> SNAP_DISTANCE + 1, pos |-> x, line |-> NoLine],
                  y |-> [min |-> SNAP_DISTANCE + 1, pos |-> y, line |-> NoLine]]
        best == snapCards(s.cards, x, y, draggedCardData, excludeCards, start)
    IN [x |-> best.x.pos, y |-> best.y.pos,
        snapLineX |-> best.x.line, snapLineY |-> best.y.line]

NoOffsets == [id \in {} |-> [x |-> 0, y |-> 0]]

\* startDragging(cardElement, event): cardId is the element's card id, mouse
\* the pointer in world coordinates.
startDragging(s, cardId, mouse) ==
    LET s0 == Log([s EXCEPT !.isDraggingCard = TRUE, !.draggedCard = cardId,
                            !.multiDragOffsets = NoOffsets], "startDragging")
    IN IF cardId \in Range(s.selectedCards)
       THEN
          LET cardIds == s.selectedCards
              present == Range(cardIds) \cap MapKeys(s.cards)
              startPositions == [id \in present |-> Pos(MapGet(s.cards, id))]
              offsets == [id \in present |->
                            [x |-> mouse.x - MapGet(s.cards, id).x,
                             y |-> mouse.y - MapGet(s.cards, id).y]]
              operation == IF Len(cardIds) > 1 THEN "multi_card_move" ELSE "card_move"
          IN saveDragState([s0 EXCEPT !.multiDragOffsets = offsets],
                           operation, cardIds, startPositions)
       ELSE
          LET cardData == MapGet(s.cards, cardId)
          IN saveDragState([s0 EXCEPT !.dragOffset =
                                  [x |-> mouse.x - cardData.x, y |-> mouse.y - cardData.y]],
                           "card_move", <<cardId>>,
                           [id \in {cardId} |-> Pos(cardData)])

\* The forEach over multiDragOffsets with the snap correction given to the
\* card under the pointer only.
RECURSIVE moveAllSnappingOne(_, _, _, _, _)
moveAllSnappingOne(s, ids, mouse, deltaX, deltaY) ==
    IF ids = {} THEN s
    ELSE
        LET id == CHOOSE i \in ids : TRUE
            offset == s.multiDragOffsets[id]
            dx == IF id = s.draggedCard THEN deltaX ELSE 0
            dy == IF id = s.draggedCard THEN deltaY ELSE 0
            s1 == IF MapHas(s.cards, id)
                  THEN WriteLive(WriteLive(s, id, "x", mouse.x - offset.x + dx),
                                 id, "y", mouse.y - offset.y + dy)
                  ELSE s
        IN moveAllSnappingOne(s1, ids \ {id}, mouse, deltaX, deltaY)

\* The forEach over multiDragOffsets: each dragged card still on the board
\* is written in place.
RECURSIVE moveAll(_, _, _, _, _)
moveAll(s, ids, mouse, deltaX, deltaY) ==
    IF ids = {} THEN s
    ELSE
        LET id == CHOOSE i \in ids : TRUE
            offset == s.multiDragOffsets[id]
            s1 == IF MapHas(s.cards, id)
                  THEN WriteLive(WriteLive(s, id, "x", mouse.x - offset.x + deltaX),
                                 id, "y", mouse.y - offset.y + deltaY)
                  ELSE s
        IN moveAll(s1, ids \ {id}, mouse, deltaX, deltaY)

\* applySnapping reads draggedCardData.height as soon as it meets a card it
\* does not skip: with no dragged card on the board that read throws.
snapThrows(s, draggedId, excludeCards) ==
    /\ ~MapHas(s.cards, draggedId)
    /\ MapKeys(s.cards) \ excludeCards # {}

updateCardDrag(s0, mouse) ==
    LET s == Log(s0, "updateCardDrag") IN
    IF s.draggedCard = NULL THEN s
    ELSE IF DOMAIN s.multiDragOffsets # {}
    THEN
        IF s.draggedCard \in DOMAIN s.multiDragOffsets
        THEN
            IF snapThrows(s, s.draggedCard, Range(s.selectedCards))
            THEN Log(s, "throw")
            ELSE
                LET draggedOffset == s.multiDragOffsets[s.draggedCard]
                    newX == mouse.x - draggedOffset.x
                    newY == mouse.y - draggedOffset.y
                    snapped == IF MapHas(s.cards, s.draggedCard)
                               THEN applySnapping(s, newX, newY,
                                                  MapGet(s.cards, s.draggedCard),
                                                  Range(s.selectedCards))
                               ELSE [x |-> newX, y |-> newY,
                                     snapLineX |-> NoLine, snapLineY |-> NoLine]
                IN moveAll(s, DOMAIN s.multiDragOffsets, mouse,
                           snapped.x - newX, snapped.y - newY)
        ELSE s
    ELSE
        IF ~MapHas(s.cards, s.draggedCard) THEN Log(s, "throw")
        ELSE
            LET cardData == MapGet(s.cards, s.draggedCard)
                snapped == applySnapping(s, mouse.x - s.dragOffset.x,
                                         mouse.y - s.dragOffset.y,
                                         cardData, {s.draggedCard})
            IN WriteLive(WriteLive(s, s.draggedCard, "x", snapped.x),
                         s.draggedCard, "y", snapped.y)

endDragging(s) ==
    LET s0 == Log(s, "endDragging")
        s1 == IF s.draggedCard # NULL
              THEN LET f == finishDragOperation(s0)
                   IN [saveCards(f, getAllCards(f)) EXCEPT
                          !.draggedCard = NULL,
                          !.multiDragOffsets = NoOffsets]
              ELSE s0
    IN [s1 EXCEPT !.isDraggingCard = FALSE]

\* ------------------------------------------------- history manager (part 2)
\* Object.values(state.cards): the values in ascending order of the keys.
Ascending(S) ==
    CHOOSE q \in [1..Cardinality(S) -> S] :
        \A i, j \in 1..Cardinality(S) : i < j => q[i] < q[j]

ObjectValues(f) == [i \in 1..Cardinality(DOMAIN f) |-> f[Ascending(DOMAIN f)[i]]]

\* applyState(null): no snapshot to restore.
NoState == [cards |-> <<>>, selectedCards |-> <<>>, activeCard |-> NULL,
            missing |-> TRUE]

\* Where the restore is cut short by an exception of a call it makes, for the
\* fault the environment injects (s.fault): "remove" in the removal of the
\* card elements, "create" in the first createCard, "storage" in the request
\* to persist.
restoreThrows(s, state) ==
    \/ s.fault \in {"remove", "storage"}
    \/ s.fault = "create" /\ DOMAIN state.cards # {}

\* A restore that recreates the snapshot's cards over the cards on the board.
applyStateOverBoard(s, state) ==
    LET created == createAll(s, ObjectValues(state.cards))
        selected == [created EXCEPT !.selectedCards = state.selectedCards]
        restored == IF state.activeCard # NULL
                       /\ MapHas(selected.cards, state.activeCard)
                    THEN [selected EXCEPT !.activeCard = state.activeCard]
                    ELSE sidebarClose([selected EXCEPT !.activeCard = NULL])
    IN saveCards(restored, getAllCards(restored))

\* A restore that lowers the flag only where the try block ends normally.
applyStateFlagAtEnd(s, state) ==
    LET s0 == [s EXCEPT !.isPerformingUndoRedo = TRUE]
        cleared == [Detach(s0, MapKeys(s0.cards)) EXCEPT !.cards = <<>>,
                                                      !.selectedCards = <<>>]
        created == createAll(cleared, ObjectValues(state.cards))
        selected == [created EXCEPT !.selectedCards = state.selectedCards]
        restored == IF state.activeCard # NULL
                       /\ MapHas(selected.cards, state.activeCard)
                    THEN [selected EXCEPT !.activeCard = state.activeCard]
                    ELSE sidebarClose([selected EXCEPT !.activeCard = NULL])
    IN IF state = NoState THEN Log(s0, "applyState:return")
       ELSE IF s.fault \in {"remove", "create"} /\ restoreThrows(s, state)
            THEN cleared
            ELSE IF s.fault = "storage" THEN restored
            ELSE [saveCards(restored, getAllCards(restored))
                     EXCEPT !.isPerformingUndoRedo = FALSE]

applyState(s, state) ==
    LET s0 == [s EXCEPT !.isPerformingUndoRedo = TRUE]
        cleared == [Detach(s0, MapKeys(s0.cards)) EXCEPT !.cards = <<>>,
                                                      !.selectedCards = <<>>]
        created == createAll(cleared, ObjectValues(state.cards))
        selected == [created EXCEPT !.selectedCards = state.selectedCards]
        restored == IF state.activeCard # NULL
                       /\ MapHas(selected.cards, state.activeCard)
                    THEN [selected EXCEPT !.activeCard = state.activeCard]
                    ELSE sidebarClose([selected EXCEPT !.activeCard = NULL])
        tried == IF state = NoState THEN Log(s0, "applyState:return")
                 ELSE IF s.fault \in {"remove", "create"} /\ restoreThrows(s, state)
                      THEN cleared
                      ELSE IF s.fault = "storage" THEN restored
                      ELSE saveCards(restored, getAllCards(restored))
    IN [tried EXCEPT !.isPerformingUndoRedo = FALSE]

\* undo as a stack would do it: the entry left behind is dropped.
undoPopping(s) ==
    IF ~canUndo(s) THEN Log(s, "undo:false")
    ELSE
        LET s1 == [s EXCEPT !.currentIndex = @ - 1,
                            !.history = SubSeq(@, 1, s.currentIndex)]
            stateToRestore == s1.history[s1.currentIndex + 1]
        IN Log(applyState(s1, stateToRestore.state), "undo:true")

undo(s) ==
    IF ~canUndo(s) THEN Log(s, "undo:false")
    ELSE
        LET s1 == [s EXCEPT !.currentIndex = @ - 1]
            stateToRestore == s1.history[s1.currentIndex + 1]
        IN Log(applyState(s1, stateToRestore.state),
               IF restoreThrows(s, stateToRestore.state) THEN "undo:throw"
               ELSE "undo:true")

redo(s) ==
    IF ~canRedo(s) THEN Log(s, "redo:false")
    ELSE
        LET s1 == [s EXCEPT !.currentIndex = @ + 1]
            stateToRestore == s1.history[s1.currentIndex + 1]
        IN Log(applyState(s1, stateToRestore.state),
               IF restoreThrows(s, stateToRestore.state) THEN "redo:throw"
               ELSE "redo:true")

\* clearHistory that empties the list and leaves the index.
clearHistoryKeepingIndex(s) ==
    Log([s EXCEPT !.history = <<>>,
                  !.pendingDragOperation = NoDrag,
                  !.contentChangeTimeout = NoTimer],
        "clearHistory")

clearHistory(s) ==
    Log([s EXCEPT !.history = <<>>, !.currentIndex = -1,
                  !.pendingDragOperation = NoDrag,
                  !.contentChangeTimeout = NoTimer],
        "clearHistory")

initialize(s) == saveState(s, "initial_state", NoData)

\* ---------------------------------------------------------------- application
DefaultCard == Card(1, 0, 0, DefaultWidth, Auto, "w")

\* Storage.initialize() right after clearData(): nothing is stored, the
\* default card is created.
storageInitialize(s) ==
    saveCards(createCard(s, DefaultCard), << Holder(DefaultCard, "copy") >>)

reset(s) ==
    initialize(clearHistory(storageInitialize(loadCards(clearData(s), <<>>))))

NoFile == [reading |-> FALSE, valid |-> FALSE, cards |-> <<>>]

\* importData(file) up to the start of the asynchronous read.
importData(s, file) ==
    [saveState(s, "import_data", NoData) EXCEPT
        !.pendingImport = [reading |-> TRUE, valid |-> file.valid,
                           cards |-> file.cards]]

\* reader.onload of Storage.importData that rejects a malformed document
\* after emptying the board.
importLoadedClearing(s) ==
    LET s1 == [s EXCEPT !.pendingImport = NoFile]
    IN IF s.pendingImport.valid
       THEN LET r == loadCards(saveData(s1, s.pendingImport.cards),
                               s.pendingImport.cards)
            IN IF "throw" \in Range(r.log) THEN Log(r, "import:rejected") ELSE r
       ELSE Log(loadCards(s1, <<>>), "import:rejected")

\* reader.onload of Storage.importData: a document without a cards array is
\* rejected; so is one whose loading throws, by the catch.
importLoaded(s) ==
    LET s1 == [s EXCEPT !.pendingImport = NoFile]
    IN IF s.pendingImport.valid
       THEN LET r == loadCards(saveData(s1, s.pendingImport.cards),
                               s.pendingImport.cards)
            IN IF "throw" \in Range(r.log) THEN Log(r, "import:rejected") ELSE r
       ELSE Log(s1, "import:rejected")

RECURSIVE duplicateAll(_, _)
duplicateAll(s, ids) ==
    IF ids = <<>> THEN s ELSE duplicateAll(duplicateCard(s, Head(ids)), Tail(ids))

RECURSIVE deleteAll(_, _)
deleteAll(s, ids) ==
    IF ids = <<>> THEN s ELSE deleteAll(deleteCard(s, Head(ids)), Tail(ids))

\* keydown with Ctrl/Cmd + D.
keyDuplicate(s) ==
    IF Len(s.selectedCards) > 0
    THEN duplicateAll(saveState(s, "duplicate_cards", [cardIds |-> s.selectedCards]),
                      s.selectedCards)
    ELSE IF s.activeCard # NULL
    THEN duplicateCard(saveState(s, "duplicate_card", [cardId |-> s.activeCard]),
                       s.activeCard)
    ELSE s

\* InfiniteCanvas.duplicateCard() of the programming interface: no history
\* entry is requested.
apiDuplicateCard(s) ==
    IF Len(s.selectedCards) > 0 THEN duplicateAll(s, s.selectedCards)
    ELSE IF s.activeCard # NULL THEN duplicateCard(s, s.activeCard)
    ELSE s

\* keydown with Delete, the confirmation accepted.
keyDelete(s) ==
    IF ~s.isOpen /\ Len(s.selectedCards) > 0
    THEN deleteAll(saveState(s, "delete_cards", [cardIds |-> s.selectedCards]),
                   s.selectedCards)
    ELSE s

\* keydown with Escape: the panel's listener, then the application's.
keyEscape(s) ==
    LET s1 == IF s.isOpen THEN sidebarClose(s) ELSE s
    IN IF s1.isOpen THEN sidebarClose(s1) ELSE clearSelection(s1)

\* The panel's buttons and inputs.
duplicateButton(s) ==
    IF s.currentCard.obj # "none"
    THEN duplicateCard(saveState(s, "duplicate_card", [cardId |-> s.currentCard.id]),
                       s.currentCard.id)
    ELSE s

deleteButton(s) ==
    IF s.currentCard.obj # "none"
    THEN sidebarClose(deleteCard(saveState(s, "delete_cards",
                                           [cardIds |-> <<s.currentCard.id>>]),
                                 s.currentCard.id))
    ELSE s

sizeInput(s, field, value) ==
    IF s.currentCard.obj # "none"
    THEN writeCurrentCard(updateCard(s, s.currentCard.id, field, value), field, value)
    ELSE s

\* The editor's text-change with source 'user'.
textChange(s, content) ==
    IF s.currentCard.obj # "none"
    THEN saveContentStateDebounced(
            writeCurrentCard(updateCard(s, s.currentCard.id, "content", content),
                             "content", content))
    ELSE s

\* mousedown on a card's drag handle or body.
mouseDown(s, cardId, mouse) ==
    LET s1 == IF cardId \notin Range(s.selectedCards)
              THEN selectCard(s, cardId, s.isCtrlPressed) ELSE s
    IN startDragging(s1, cardId, mouse)

\* keyup with no modifier held, and the window's blur.
keyUp(s) == clearMultiSelection([s EXCEPT !.isCtrlPressed = FALSE])

\* keydown with Ctrl or Cmd held: the card manager's listener runs before the
\* application's.
ctrlKeyDown(s) == [s EXCEPT !.isCtrlPressed = TRUE]

RECURSIVE addAll(_, _)
addAll(q, ids) == IF ids = <<>> THEN q ELSE addAll(SetAdd(q, Head(ids)), Tail(ids))

selectAllCards(s) ==
    IF ~s.isCtrlPressed THEN s
    ELSE
        LET s1 == clearSelection(s)
            keys == [i \in 1..Len(s1.cards) |-> s1.cards[i].id]
            s2 == [s1 EXCEPT !.selectedCards = addAll(@, keys)]
        IN IF keys # <<>>
           THEN sidebarOpen([s2 EXCEPT !.activeCard = keys[1]], keys[1])
           ELSE s2

\* ---------------------------------------------------------------------- world
\* The numbers of the viewport are fractions n/d in lowest terms, d > 0.  An
\* operation takes the values of its operands: they are bound by x \in {a}.
gcd[p \in Nat \X Nat] == IF p[2] = 0 THEN p[1] ELSE gcd[<< p[2], p[1] % p[2] >>]

GCD(a, b) == gcd[<< a, b >>]

Frac(n, d) ==
    CHOOSE r \in UNION { { [n |-> (IF (p < 0) # (q < 0) THEN -1 ELSE 1) * (Abs(p) \div g),
                            d |-> Abs(q) \div g] : g \in { GCD(Abs(p), Abs(q)) } } :
                         p \in {n}, q \in {d} } : TRUE

Whole(n) == Frac(n, 1)

Plus(a, b) ==
    CHOOSE r \in UNION { { Frac(x.n * (y.d \div g) + y.n * (x.d \div g),
                                (x.d \div g) * y.d) : g \in { GCD(x.d, y.d) } } :
                         x \in {a}, y \in {b} } : TRUE

Minus(a, b) == CHOOSE r \in { Plus(a, [n |-> -y.n, d |-> y.d]) : y \in {b} } : TRUE

Times(a, b) ==
    CHOOSE r \in UNION { { Frac(a1.n * b1.n, a1.d * b1.d) :
                           a1 \in { Frac(x.n, y.d) }, b1 \in { Frac(y.n, x.d) } } :
                         x \in {a}, y \in {b} } : TRUE

Over(a, b) == CHOOSE r \in { Times(a, Frac(y.d, y.n)) : y \in {b} } : TRUE

Less(a, b) == Minus(a, b).n < 0

LeastOf(a, b) == IF Less(b, a) THEN b ELSE a

MostOf(a, b) == IF Less(a, b) THEN b ELSE a

Size(a) == CHOOSE r \in { [n |-> Abs(x.n), d |-> x.d] : x \in {a} } : TRUE

MIN_SCALE == Frac(1, 10)
MAX_SCALE == Whole(2)
DAMPING == Frac(1, 5)

\* viewport.getBoundingClientRect(): the viewport fills the window.
ViewportWidth == 800
ViewportHeight == 600

\* The cursor in the viewport, and Math.exp(-deltaY * ZOOM_SENSITIVITY) for
\* the wheel deltas rolled: one notch either way and a page-wise delta that
\* takes the scale past MIN_SCALE.
Cursors == { [x |-> Whole(400), y |-> Whole(300)], [x |-> Whole(100), y |-> Whole(50)] }

ZoomFactors == { Frac(1, 2), Whole(3), Frac(1, 20) }

\* The worldState of an imported document: one written by the export of a
\* board seen at half size, one that getWorldState() took right after a wheel
\* event at (100, 50) had halved the target scale of a new world, one written
\* by hand.
WorldStates ==
    { [translateX |-> Whole(200), translateY |-> Whole(100), scale |-> Frac(1, 2),
       targetTX |-> Whole(200), targetTY |-> Whole(100), targetScale |-> Frac(1, 2)],
      [translateX |-> Whole(400), translateY |-> Whole(300), scale |-> Whole(1),
       targetTX |-> Whole(250), targetTY |-> Whole(175), targetScale |-> Frac(1, 2)],
      [translateX |-> Whole(0), translateY |-> Whole(0), scale |-> Whole(5),
       targetTX |-> Whole(0), targetTY |-> Whole(0), targetScale |-> Whole(0)] }

\* centerView().
centerView(w) ==
    [w EXCEPT !.translateX = Frac(ViewportWidth, 2), !.targetTX = Frac(ViewportWidth, 2),
              !.translateY = Frac(ViewportHeight, 2), !.targetTY = Frac(ViewportHeight, 2)]

\* The fields as the constructor of World leaves them; rafId says whether the
\* field holds the id of a request, and frames counts the callbacks that
\* requestAnimationFrame was given and that have not run.
NewWorld ==
    centerView([isDragging |-> FALSE, startX |-> Whole(0), startY |-> Whole(0),
                translateX |-> Whole(0), translateY |-> Whole(0),
                targetScale |-> Whole(1), targetTX |-> Whole(0), targetTY |-> Whole(0),
                rafId |-> FALSE, frames |-> 0, scale |-> Whole(1)])

\* kickAnimation() without its test of rafId.
kickAnimationAlways(w) == [w EXCEPT !.rafId = TRUE, !.frames = @ + 1]

\* kickAnimation().
kickAnimation(w) ==
    IF ~w.rafId THEN [w EXCEPT !.rafId = TRUE, !.frames = @ + 1] ELSE w

\* The wheel listener: mouse is the cursor in the viewport, zoom the factor
\* computed from the wheel delta.
wheel(w, mouse, zoom) ==
    LET worldX == Minus(mouse.x, w.targetTX)
        worldY == Minus(mouse.y, w.targetTY)
        newTargetScale ==
            LeastOf(MAX_SCALE, MostOf(MIN_SCALE, Times(w.targetScale, zoom)))
        scaleFactor == Over(newTargetScale, w.targetScale)
    IN kickAnimation([w EXCEPT !.targetTX = Minus(mouse.x, Times(worldX, scaleFactor)),
                               !.targetTY = Minus(mouse.y, Times(worldY, scaleFactor)),
                               !.targetScale = newTargetScale])

\* animate(): one animation frame, the run of one requested callback.
animate(w) ==
    LET w1 == [w EXCEPT
                 !.frames = @ - 1,
                 !.translateX = Plus(@, Times(Minus(w.targetTX, @), DAMPING)),
                 !.translateY = Plus(@, Times(Minus(w.targetTY, @), DAMPING)),
                 !.scale = Plus(@, Times(Minus(w.targetScale, @), DAMPING))]
        done == /\ Less(Size(Minus(w1.targetTX, w1.translateX)), Frac(1, 100))
                /\ Less(Size(Minus(w1.targetTY, w1.translateY)), Frac(1, 100))
                /\ Less(Size(Minus(w1.targetScale, w1.scale)), Frac(1, 10000))
    IN IF ~done THEN [w1 EXCEPT !.rafId = TRUE, !.frames = @ + 1]
       ELSE [w1 EXCEPT !.rafId = FALSE]

\* mousedown on the empty viewport, mousemove and mouseup: panning.
panStart(w, mouse) ==
    [w EXCEPT !.isDragging = TRUE,
              !.startX = Minus(mouse.x, w.translateX),
              !.startY = Minus(mouse.y, w.translateY)]

panMove(w, mouse) ==
    [w EXCEPT !.translateX = Minus(mouse.x, w.startX),
              !.targetTX = Minus(mouse.x, w.startX),
              !.translateY = Minus(mouse.y, w.startY),
              !.targetTY = Minus(mouse.y, w.startY)]

panEnd(w) == [w EXCEPT !.isDragging = FALSE]

\* a || b of two numbers.
OrElse(a, b) == IF a.n # 0 THEN a ELSE b

\* Storage.applyWorldState(worldState), every field of worldState defined.
applyWorldState(w, worldState) ==
    [w EXCEPT !.translateX = worldState.translateX,
              !.targetTX = OrElse(worldState.targetTX, worldState.translateX),
              !.translateY = worldState.translateY,
              !.targetTY = OrElse(worldState.targetTY, worldState.translateY),
              !.scale = worldState.scale,
              !.targetScale = OrElse(worldState.targetScale, worldState.scale)]

\* The part of reset() that is about the world.
resetWorld(w) ==
    [centerView(w) EXCEPT !.scale = Whole(1), !.targetScale = Whole(1)]

\* screenToWorld(screenX, screenY).
screenToWorld(w, screen) ==
    [x |-> Over(Minus(screen.x, w.translateX), w.scale),
     y |-> Over(Minus(screen.y, w.translateY), w.scale)]

\* The world point that the target transform maps to a point of the screen.
targetToWorld(w, screen) ==
    [x |-> Over(Minus(screen.x, w.targetTX), w.targetScale),
     y |-> Over(Minus(screen.y, w.targetTY), w.targetScale)]

\* ------------------------------------------------------------- initial state
\* The fields as the constructors leave them.
Constructed ==
    [ cards |-> <<>>, nextId |-> 1, activeCard |-> NULL, selectedCards |-> <<>>,
      isCtrlPressed |-> FALSE, isDraggingCard |-> FALSE, draggedCard |-> NULL,
      dragOffset |-> [x |-> 0, y |-> 0], multiDragOffsets |-> NoOffsets,
      history |-> <<>>, currentIndex |-> -1, isPerformingUndoRedo |-> FALSE,
      pendingDragOperation |-> NoDrag, contentChangeTimeout |-> NoTimer,
      isOpen |-> FALSE, currentCard |-> NoCard, lastSavedContent |-> "",
      sidebarTimeout |-> "null", pendingImport |-> NoFile,
      autoSaveTimeout |-> NoAutoSave, persisted |-> NothingStored,
      log |-> <<>>, fault |-> "none" ]

\* start() with nothing stored: the default card, then the initial history
\* entry.
Started == initialize(storageInitialize(Constructed))

\* ------------------------------------------------------------ the observation
\* linPhase follows the calls of the history manager: 1 after a saveState,
\* 2 after saveState and a successful undo, 3 after saveState, a successful
\* undo and a saveState; 0 after anything else.
MonitorStep(p, e) ==
    CASE e = "saveState" -> IF p = 2 THEN 3 ELSE 1
      [] e = "undo:true" -> IF p \in {1, 3} THEN 2 ELSE 0
      [] e \in {"undo:false", "undo:throw", "redo:true", "redo:false",
                "redo:throw", "clearHistory"} -> 0
      [] OTHER -> p

RECURSIVE Monitor(_, _)
Monitor(p, events) ==
    IF events = <<>> THEN p
    ELSE Monitor(MonitorStep(p, Head(events)), Tail(events))

\* The burst of edits that the timed specification follows: the card, its
\* content before the first edit and after the last one, and how far the
\* burst has got; synced says that at the first edit the panel held the
\* card object of the board and that content as its baseline.
NoBurst == [phase |-> "idle", cardId |-> NULL, before |-> "", after |-> "",
            synced |-> FALSE]

\* What is seen of the auto-save since the last call of saveCards: whether
\* that call still waits for its write, the ticks since it, the calls since
\* the write before it (2 for two or more) and the writes by a timer since it
\* (2 for two or more).
NoDebounce == [armed |-> FALSE, since |-> 0, calls |-> 0, writes |-> 0]

DebounceStep(d, e) ==
    CASE e = "saveCards" ->
            [armed |-> TRUE, since |-> 0,
             calls |-> IF d.armed THEN 2 ELSE 1, writes |-> 0]
      [] e = "tick" ->
            IF d.armed THEN [d EXCEPT !.since = IF @ > TicksPerDelay THEN @ ELSE @ + 1]
            ELSE d
      [] e = "autoSave" ->
            [d EXCEPT !.armed = FALSE, !.writes = IF @ = 0 THEN 1 ELSE 2]
      [] OTHER -> d

RECURSIVE Debounce(_, _)
Debounce(d, events) ==
    IF events = <<>> THEN d
    ELSE Debounce(DebounceStep(d, Head(events)), Tail(events))

Init ==
    /\ cards = Started.cards
    /\ nextId = Started.nextId
    /\ activeCard = Started.activeCard
    /\ selectedCards = Started.selectedCards
    /\ isCtrlPressed = Started.isCtrlPressed
    /\ isDraggingCard = Started.isDraggingCard
    /\ draggedCard = Started.draggedCard
    /\ dragOffset = Started.dragOffset
    /\ multiDragOffsets = Started.multiDragOffsets
    /\ history = Started.history
    /\ currentIndex = Started.currentIndex
    /\ isPerformingUndoRedo = Started.isPerformingUndoRedo
    /\ pendingDragOperation = Started.pendingDragOperation
    /\ contentChangeTimeout = Started.contentChangeTimeout
    /\ isOpen = Started.isOpen
    /\ currentCard = Started.currentCard
    /\ lastSavedContent = Started.lastSavedContent
    /\ sidebarTimeout = Started.sidebarTimeout
    /\ pendingImport = Started.pendingImport
    /\ autoSaveTimeout = Started.autoSaveTimeout
    /\ persisted = Started.persisted
    /\ log = Started.log
    /\ linPhase = Monitor(0, Started.log)
    /\ steps = 0
    /\ sidebarLeft = 0
    /\ contentLeft = 0
    /\ burst = NoBurst
    /\ everIds = MapKeys(Started.cards)
    /\ debounce = Debounce(NoDebounce, Started.log)
    /\ world = NewWorld

\* The handler ends in state s2.
Commit(s2) ==
    /\ cards' = s2.cards
    /\ nextId' = s2.nextId
    /\ activeCard' = s2.activeCard
    /\ selectedCards' = s2.selectedCards
    /\ isCtrlPressed' = s2.isCtrlPressed
    /\ isDraggingCard' = s2.isDraggingCard
    /\ draggedCard' = s2.draggedCard
    /\ dragOffset' = s2.dragOffset
    /\ multiDragOffsets' = s2.multiDragOffsets
    /\ history' = s2.history
    /\ currentIndex' = s2.currentIndex
    /\ isPerformingUndoRedo' = s2.isPerformingUndoRedo
    /\ pendingDragOperation' = s2.pendingDragOperation
    /\ contentChangeTimeout' = s2.contentChangeTimeout
    /\ isOpen' = s2.isOpen
    /\ currentCard' = s2.currentCard
    /\ lastSavedContent' = s2.lastSavedContent
    /\ sidebarTimeout' = s2.sidebarTimeout
    /\ pendingImport' = s2.pendingImport
    /\ autoSaveTimeout' = s2.autoSaveTimeout
    /\ persisted' = s2.persisted
    /\ log' = s2.log
    /\ linPhase' = Monitor(linPhase, s2.log)
    /\ everIds' = everIds \cup MapKeys(s2.cards)

\* The part of the state space that is explored.
InRange(s2) == s2.nextId <= MaxId + 1

\* One event of a session of at most MaxSteps events.
Step(s2) ==
    /\ steps < MaxSteps
    /\ InRange(s2)
    /\ Len(s2.history) <= MaxHist
    /\ Commit(s2)
    /\ steps' = steps + 1
    /\ UNCHANGED << sidebarLeft, contentLeft, burst, debounce, world >>

\* -------------------------------------------------------------------- actions
\* Keyboard.
CtrlDown == Step(ctrlKeyDown(Cur))

CtrlUp == Step(keyUp(Cur))

\* performUndo and performRedo: by the keyboard shortcut or by the
\* application's programming interface.
PerformUndo == \E viaKey \in BOOLEAN :
    Step(undo(IF viaKey THEN ctrlKeyDown(Cur) ELSE Cur))

PerformRedo == \E viaKey \in BOOLEAN :
    Step(redo(IF viaKey THEN ctrlKeyDown(Cur) ELSE Cur))

\* Ctrl+N, or the panel's add button.
AddNewCard == \E viaKey \in BOOLEAN :
    Step(addNewCard(IF viaKey THEN ctrlKeyDown(Cur) ELSE Cur))

KeyDuplicate == Step(keyDuplicate(ctrlKeyDown(Cur)))

KeyDelete == Step(keyDelete(Cur))

KeyEscape == Step(keyEscape(Cur))

\* The programming interface (window.InfiniteCanvas), used while no mouse
\* button is held.
SelectAll == ~isDraggingCard /\ Step(selectAllCards(Cur))

ApiDuplicate == ~isDraggingCard /\ Step(apiDuplicateCard(Cur))

\* Mouse on the board.  A click follows a mouseup, which ends a drag.
ClickCard == \E id \in MapKeys(cards) :
    ~isDraggingCard /\ Step(selectCard(Cur, id, isCtrlPressed))

ClickEmpty == ~isDraggingCard /\ Step(clearSelection(Cur))

DblClick == \E id \in MapKeys(cards) :
    ~isDraggingCard /\ Step(selectCard(Cur, id, FALSE))

MouseDown == \E id \in MapKeys(cards), mouse \in Pointers :
    Step(mouseDown(Cur, id, mouse))

MouseMove == \E mouse \in Pointers :
    isDraggingCard /\ draggedCard # NULL /\ Step(updateCardDrag(Cur, mouse))

MouseUp == isDraggingCard /\ Step(endDragging(Cur))

\* The editing panel, visible while it is open.
CloseClick == isOpen /\ Step(sidebarClose(Cur))

DuplicateClick == isOpen /\ ~isDraggingCard /\ Step(duplicateButton(Cur))

DeleteClick == isOpen /\ ~isDraggingCard /\ Step(deleteButton(Cur))

WidthInput == \E width \in WidthInputs :
    isOpen /\ Step(sizeInput(Cur, "width", width))

HeightInput == \E height \in HeightInputs :
    isOpen /\ Step(sizeInput(Cur, "height", height))

TextChange == \E content \in EditContents :
    isOpen /\ Step(textChange(Cur, content))

\* Timers.
ContentTimer == contentChangeTimeout.pending /\ Step(contentTimerCallback(Cur))

SidebarTimer == sidebarTimeout = "pending" /\ Step(sidebarTimerCallback(Cur))

\* Import: the drop of a file, then the end of its read; one read at a time.
Drop == \E file \in ImportFiles :
    ~isDraggingCard /\ ~pendingImport.reading /\ Step(importData(Cur, file))

ImportLoaded == pendingImport.reading /\ Step(importLoaded(Cur))

\* reset(), the confirmation accepted.
Reset == ~isDraggingCard /\ Step(reset(Cur))

Next ==
    \/ CtrlDown \/ CtrlUp
    \/ PerformUndo \/ PerformRedo
    \/ AddNewCard \/ KeyDuplicate \/ KeyDelete \/ KeyEscape
    \/ SelectAll \/ ApiDuplicate
    \/ ClickCard \/ ClickEmpty \/ DblClick
    \/ MouseDown \/ MouseMove \/ MouseUp
    \/ CloseClick \/ DuplicateClick \/ DeleteClick
    \/ WidthInput \/ HeightInput \/ TextChange
    \/ ContentTimer \/ SidebarTimer
    \/ Drop \/ ImportLoaded \/ Reset

Spec == Init /\ [][Next]_vars

\* ---------------------------------------------- a session that fills the history
\* The card is selected and its height typed over and over, with undo and
\* redo in between; the number of events and of entries is not bounded.
Unbounded(s2) ==
    /\ InRange(s2)
    /\ Commit(s2)
    /\ steps' = steps
    /\ UNCHANGED << sidebarLeft, contentLeft, burst, debounce, world >>

CapClick == \E id \in MapKeys(cards) :
    ~isDraggingCard /\ Unbounded(selectCard(Cur, id, isCtrlPressed))

CapHeightInput == \E height \in HeightInputs :
    isOpen /\ Unbounded(sizeInput(Cur, "height", height))

CapUndo == Unbounded(undo(Cur))

CapRedo == Unbounded(redo(Cur))

NextCap == CapClick \/ CapHeightInput \/ CapUndo \/ CapRedo

SpecCap == Init /\ [][NextCap]_vars

\* ------------------------------------------- restores that fail or return early
\* An exception of a call made inside the restore, and applyState called
\* with no snapshot.
FaultUndo == \E f \in Faults : Step(undo([Cur EXCEPT !.fault = f]))

FaultRedo == \E f \in Faults : Step(redo([Cur EXCEPT !.fault = f]))

ApplyMissing == Step(applyState(Cur, NoState))

\* ------------------------------------------------------ what reaches the storage
\* The callback of the auto-save timer, whenever it is due.
AutoSaveTimer == \E k \in pendingTimers(Cur) : Step(timerCallback(Cur, k))

\* Ctrl/Cmd+S, or the debounced save of the world state after a pan or a
\* zoom: the cards of the board are written at once.
SaveNow == \E viaKey \in BOOLEAN :
    LET s == IF viaKey THEN ctrlKeyDown(Cur) ELSE Cur
    IN Step(saveData(s, getAllCards(s)))

NextStorage == Next \/ AutoSaveTimer \/ SaveNow

SpecStorage == Init /\ [][NextStorage]_vars

NextFault == Next \/ FaultUndo \/ FaultRedo \/ ApplyMissing

SpecFault == Init /\ [][NextFault]_vars

\* ------------------------------------- the history manager's methods interleaved
\* The methods of window.undoRedoManager called in any order, between events
\* that change the board and arm the drag record and the content timer.
HistSaveState == Step(saveState(Cur, "create_card", NoData))

HistFinishDrag == Step(finishDragOperation(Cur))

HistUndo == Step(undo(Cur))

HistRedo == Step(redo(Cur))

HistClear == Step(clearHistory(Cur))

HistInitialize == Step(initialize(Cur))

NextHistory ==
    \/ HistSaveState \/ HistFinishDrag \/ ContentTimer
    \/ HistUndo \/ HistRedo \/ HistClear \/ HistInitialize
    \/ ClickCard \/ MouseDown \/ MouseMove \/ TextChange \/ SidebarTimer

SpecHistory == Init /\ [][NextHistory]_vars

\* ------------------------------------------------------- the debounce timers in time
\* Time passes in ticks.  A timer set by a handler is due TicksPerDelay ticks
\* later; a due timer runs before time passes and before a later event; of
\* two timers due together the one set first runs first, and that is the
\* history manager's: it is set by the panel's callback or by close(), which
\* leave the panel's timer not pending.
TimersPending(s) == s.sidebarTimeout = "pending" \/ s.contentChangeTimeout.pending

SidebarDue == sidebarTimeout = "pending" /\ sidebarLeft = 0

ContentDue == contentChangeTimeout.pending /\ contentLeft = 0

\* The handler ends in s2; input says whether it is an event of the user.
Timed(s2, input) ==
    /\ input => (steps < MaxSteps /\ ~SidebarDue /\ ~ContentDue)
    /\ InRange(s2)
    /\ Len(s2.history) <= MaxHist
    /\ Commit(s2)
    /\ steps' = IF input THEN steps + 1 ELSE steps
    /\ sidebarLeft' =
          IF "saveContentStateDebounced" \in Range(s2.log) THEN TicksPerDelay
          ELSE IF s2.sidebarTimeout = "pending" THEN sidebarLeft ELSE 0
    /\ contentLeft' =
          IF "saveContentState" \in Range(s2.log) THEN TicksPerDelay
          ELSE IF s2.contentChangeTimeout.pending THEN contentLeft ELSE 0
    /\ UNCHANGED << debounce, world >>

\* An event other than an edit ends the burst that is followed.
Disturbed(s2) ==
    burst' = [burst EXCEPT !.phase = IF TimersPending(s2) THEN "void" ELSE "idle"]

\* A timer's callback moves the burst on.
Settled(s2, from, to) ==
    burst' = [burst EXCEPT !.phase =
                CASE burst.phase = from -> to
                  [] burst.phase = "void" /\ ~TimersPending(s2) -> "idle"
                  [] OTHER -> burst.phase]

Tick ==
    /\ TimersPending(Cur)
    /\ ~SidebarDue /\ ~ContentDue
    /\ Commit(Cur)
    /\ steps' = steps
    /\ sidebarLeft' = IF sidebarTimeout = "pending" THEN sidebarLeft - 1 ELSE 0
    /\ contentLeft' = IF contentChangeTimeout.pending THEN contentLeft - 1 ELSE 0
    /\ UNCHANGED << burst, debounce, world >>

\* What the editor shows: populateForm and the edits keep it equal to the
\* card on the board.
EditorContent ==
    IF MapHas(cards, currentCard.id) THEN MapGet(cards, currentCard.id).content
    ELSE currentCard.content

\* An edit changes what the editor shows.  It continues the burst whose timer
\* is pending, or begins one where no timer is pending.
TimedTextChange == \E content \in BurstContents :
    /\ isOpen
    /\ content # EditorContent
    /\ Timed(textChange(Cur, content), TRUE)
    /\ burst' =
          IF burst.phase = "editing" /\ sidebarTimeout = "pending"
          THEN [burst EXCEPT !.after = content]
          ELSE IF ~TimersPending(Cur) /\ MapHas(cards, currentCard.id)
          THEN [phase |-> "editing", cardId |-> currentCard.id,
                before |-> MapGet(cards, currentCard.id).content,
                after |-> content,
                synced |-> /\ currentCard.obj = "live"
                           /\ lastSavedContent = MapGet(cards, currentCard.id).content]
          ELSE [burst EXCEPT !.phase = "void"]

TimedSidebarTimer ==
    /\ SidebarDue /\ ~ContentDue
    /\ Timed(sidebarTimerCallback(Cur), FALSE)
    /\ Settled(sidebarTimerCallback(Cur), "editing",
               IF sidebarTimerCallback(Cur).contentChangeTimeout.pending
               THEN "settling" ELSE "done")

TimedContentTimer ==
    /\ ContentDue
    /\ Timed(contentTimerCallback(Cur), FALSE)
    /\ Settled(contentTimerCallback(Cur), "settling", "done")

\* Events that interrupt a burst: a click on a card, a height typed, the
\* close button, undo, redo.
NextTimed ==
    \/ Tick \/ TimedTextChange \/ TimedSidebarTimer \/ TimedContentTimer
    \/ \E id \in MapKeys(cards) :
          LET s2 == selectCard(Cur, id, isCtrlPressed)
          IN ~isDraggingCard /\ Timed(s2, TRUE) /\ Disturbed(s2)
    \/ \E height \in HeightInputs :
          LET s2 == sizeInput(Cur, "height", height)
          IN isOpen /\ Timed(s2, TRUE) /\ Disturbed(s2)
    \/ LET s2 == sidebarClose(Cur)
       IN isOpen /\ Timed(s2, TRUE) /\ Disturbed(s2)
    \/ LET s2 == undo(Cur)
       IN Timed(s2, TRUE) /\ Disturbed(s2)
    \/ LET s2 == redo(Cur)
       IN Timed(s2, TRUE) /\ Disturbed(s2)

SpecTimed == Init /\ [][NextTimed]_vars

\* ------------------------------------------------------ a board of several cards
\* Cards are created, duplicated, selected, deleted and brought back by undo,
\* redo, import and reset; ids are handed out up to MaxId + 2.
Wide(s2) ==
    /\ steps < MaxSteps
    /\ s2.nextId <= MaxId + 3
    /\ Len(s2.history) <= MaxHist
    /\ Commit(s2)
    /\ steps' = steps + 1
    /\ UNCHANGED << sidebarLeft, contentLeft, burst, debounce, world >>

\* Ctrl/Cmd+D.
WideKeyDuplicate == Wide(keyDuplicate(ctrlKeyDown(Cur)))

\* The modifier pressed and released; Ctrl+N, Ctrl+D, the duplication of the
\* programming interface and of the panel; click, select all, close; delete
\* by key and by button; undo, redo; import and reset.
NextWide ==
    \/ Wide(ctrlKeyDown(Cur))
    \/ Wide(keyUp(Cur))
    \/ Wide(addNewCard(Cur))
    \/ WideKeyDuplicate
    \/ Wide(apiDuplicateCard(Cur))
    \/ isOpen /\ Wide(duplicateButton(Cur))
    \/ \E id \in MapKeys(cards) : Wide(selectCard(Cur, id, isCtrlPressed))
    \/ Wide(selectAllCards(Cur))
    \/ isOpen /\ Wide(sidebarClose(Cur))
    \/ Wide(keyDelete(Cur))
    \/ isOpen /\ Wide(deleteButton(Cur))
    \/ Wide(undo(Cur))
    \/ Wide(redo(Cur))
    \/ \E file \in ImportFiles :
          ~pendingImport.reading /\ Wide(importData(Cur, file))
    \/ pendingImport.reading /\ Wide(importLoaded(Cur))
    \/ Wide(reset(Cur))

SpecWide == Init /\ [][NextWide]_vars

\* --------------------------------------------------- dragging on a stored board
\* The card lists found in storage when the application starts: card 1 is
\* the default card, card 2 lies five pixels right of it, card 3 right of
\* card 2 at one of several places.
StoredBoards ==
    { << Card(1, 0, 0, 300, Auto, "w"), Card(2, 305, 0, 300, Auto, "w"), c3 >> :
        c3 \in { Card(3, 608, 0, 300, Auto, "w"),
                 Card(3, 604, 2, 320, 100, "w"),
                 Card(3, 613, 104, 300, Auto, "a") } }

\* The pointer while a card is dragged, in world coordinates.
DragPointers == { [x |-> px, y |-> py] : px \in {0, 2, 5}, py \in {0, 2} }

\* start() with a card list in storage: the cards are loaded, then the
\* initial history entry is taken.
StartedWith(board) ==
    initialize(loadCards([Constructed EXCEPT
                             !.persisted = [saved |-> TRUE, cards |-> board]],
                         board))

InitSnap ==
    \E board \in StoredBoards :
        LET s == StartedWith(board) IN
        /\ cards = s.cards
        /\ nextId = s.nextId
        /\ activeCard = s.activeCard
        /\ selectedCards = s.selectedCards
        /\ isCtrlPressed = s.isCtrlPressed
        /\ isDraggingCard = s.isDraggingCard
        /\ draggedCard = s.draggedCard
        /\ dragOffset = s.dragOffset
        /\ multiDragOffsets = s.multiDragOffsets
        /\ history = s.history
        /\ currentIndex = s.currentIndex
        /\ isPerformingUndoRedo = s.isPerformingUndoRedo
        /\ pendingDragOperation = s.pendingDragOperation
        /\ contentChangeTimeout = s.contentChangeTimeout
        /\ isOpen = s.isOpen
        /\ currentCard = s.currentCard
        /\ lastSavedContent = s.lastSavedContent
        /\ sidebarTimeout = s.sidebarTimeout
        /\ pendingImport = s.pendingImport
        /\ autoSaveTimeout = s.autoSaveTimeout
        /\ persisted = s.persisted
        /\ log = s.log
        /\ linPhase = Monitor(0, s.log)
        /\ steps = 0
        /\ sidebarLeft = 0
        /\ contentLeft = 0
        /\ burst = NoBurst
        /\ everIds = MapKeys(s.cards)
        /\ debounce = Debounce(NoDebounce, s.log)
        /\ world = NewWorld

\* mousemove while a card is dragged.
SnapMouseMove == \E mouse \in DragPointers :
    isDraggingCard /\ draggedCard # NULL /\ Wide(updateCardDrag(Cur, mouse))

\* mouseup.
SnapMouseUp == isDraggingCard /\ Wide(endDragging(Cur))

\* The modifier pressed and released, click, mousedown, mousemove, mouseup,
\* select all, undo.
NextSnap ==
    \/ Wide(ctrlKeyDown(Cur))
    \/ Wide(keyUp(Cur))
    \/ \E id \in MapKeys(cards) :
          ~isDraggingCard /\ Wide(selectCard(Cur, id, isCtrlPressed))
    \/ \E id \in MapKeys(cards), mouse \in DragPointers :
          Wide(mouseDown(Cur, id, mouse))
    \/ SnapMouseMove
    \/ SnapMouseUp
    \/ ~isDraggingCard /\ Wide(selectAllCards(Cur))
    \/ Wide(undo(Cur))

SpecSnap == InitSnap /\ [][NextSnap]_vars

\* Cards dragged one at a time: mousedown, mousemove, mouseup.
NextPointer ==
    \/ \E id \in MapKeys(cards), mouse \in DragPointers :
          ~isDraggingCard /\ Wide(mouseDown(Cur, id, mouse))
    \/ SnapMouseMove
    \/ SnapMouseUp

SpecPointer == InitSnap /\ [][NextPointer]_vars

\* ------------------------------------------------------- the auto-save in time
timerDue(s) == \E k \in pendingTimers(s) : timerLeft(s, k) = 0

\* The handler ends in s2; input says whether it is an event of the user or
\* the end of a file read, which come while no timer is due.
Debounced(s2, input) ==
    /\ input => (steps < MaxSteps /\ ~timerDue(Cur))
    /\ InRange(s2)
    /\ Len(s2.history) <= MaxHist
    /\ Commit(s2)
    /\ steps' = IF input THEN steps + 1 ELSE steps
    /\ debounce' = Debounce(debounce, s2.log)
    /\ UNCHANGED << sidebarLeft, contentLeft, burst, world >>

DebounceTick ==
    pendingTimers(Cur) # {} /\ ~timerDue(Cur) /\ Debounced(tick(Cur), FALSE)

DebounceTimer == \E k \in pendingTimers(Cur) :
    timerLeft(Cur, k) = 0 /\ Debounced(timerCallback(Cur, k), FALSE)

\* Ctrl+N, a click on a card, a width typed, the Delete key, Ctrl+D, a drag,
\* undo, redo, import and reset.
NextDebounce ==
    \/ DebounceTick
    \/ DebounceTimer
    \/ Debounced(addNewCard(ctrlKeyDown(Cur)), TRUE)
    \/ \E id \in MapKeys(cards) :
          ~isDraggingCard /\ Debounced(selectCard(Cur, id, isCtrlPressed), TRUE)
    \/ \E width \in WidthInputs :
          isOpen /\ Debounced(sizeInput(Cur, "width", width), TRUE)
    \/ Debounced(keyDelete(Cur), TRUE)
    \/ Debounced(keyDuplicate(ctrlKeyDown(Cur)), TRUE)
    \/ \E id \in MapKeys(cards), mouse \in Pointers :
          ~isDraggingCard /\ Debounced(mouseDown(Cur, id, mouse), TRUE)
    \/ \E mouse \in Pointers :
          isDraggingCard /\ draggedCard # NULL
             /\ Debounced(updateCardDrag(Cur, mouse), TRUE)
    \/ isDraggingCard /\ Debounced(endDragging(Cur), TRUE)
    \/ Debounced(undo(ctrlKeyDown(Cur)), TRUE)
    \/ Debounced(redo(ctrlKeyDown(Cur)), TRUE)
    \/ \E file \in ImportFiles :
          ~isDraggingCard /\ ~pendingImport.reading
             /\ Debounced(importData(Cur, file), TRUE)
    \/ pendingImport.reading /\ Debounced(importLoaded(Cur), TRUE)
    \/ ~isDraggingCard /\ Debounced(reset(Cur), TRUE)

SpecDebounce == Init /\ [][NextDebounce]_vars

\* ---------------------------------------------------------------- the viewport
\* One event of the session: the handler leaves the cards in s2 and the world
\* in w2.
Viewed(s2, w2) ==
    /\ steps < MaxSteps
    /\ InRange(s2)
    /\ Len(s2.history) <= MaxHist
    /\ Commit(s2)
    /\ world' = w2
    /\ steps' = steps + 1
    /\ UNCHANGED << sidebarLeft, contentLeft, burst, debounce >>

\* wheel over the viewport.
WorldWheel == \E mouse \in Cursors, zoom \in ZoomFactors :
    ~isDraggingCard /\ Viewed(Log(Cur, "wheel"), wheel(world, mouse, zoom))

\* An animation frame that was requested.
WorldFrame == world.frames > 0 /\ Viewed(Cur, animate(world))

\* reader.onload of an import whose document holds a worldState.
WorldImportLoaded == \E worldState \in WorldStates :
    /\ pendingImport.reading
    /\ Viewed(importLoaded(Cur),
              IF "import:rejected" \in Range(importLoaded(Cur).log) THEN world
              ELSE applyWorldState(world, worldState))

\* Zooming, animation frames, panning, import and reset.
NextWorld ==
    \/ WorldWheel
    \/ WorldFrame
    \/ \E mouse \in Cursors :
          ~isDraggingCard /\ ~world.isDragging /\ Viewed(Cur, panStart(world, mouse))
    \/ \E mouse \in Cursors :
          world.isDragging /\ ~isDraggingCard /\ Viewed(Cur, panMove(world, mouse))
    \/ world.isDragging /\ Viewed(Cur, panEnd(world))
    \/ \E file \in ImportFiles :
          ~pendingImport.reading /\ Viewed(importData(Cur, file), world)
    \/ WorldImportLoaded
    \/ Viewed(reset(Cur), resetWorld(world))

SpecWorld == Init /\ [][NextWorld]_vars

\* The browser runs a timer's callback once its delay is over, and time
\* passes while a timer is pending.
SpecDebounceFair ==
    SpecDebounce /\ WF_vars(DebounceTick) /\ WF_vars(DebounceTimer)

\* The viewport with its animation run to the end.  A wheel notch of a
\* pixel-precise device: Math.exp(-deltaY * ZOOM_SENSITIVITY) for a deltaY of
\* about a twelfth of a pixel; the numbers of the loop stay exact for the
\* frames that such a notch takes, so the wheel event is the first event of
\* a session.
FineZoom == Frac(8001, 8000)

MaxZooms == 1

\* The worldState of an imported document: the one of a new world, and the
\* one that getWorldState() took right after a wheel event at (100, 50) with
\* FineZoom.
FineWorldStates ==
    { [translateX |-> Whole(400), translateY |-> Whole(300), scale |-> Whole(1),
       targetTX |-> Whole(400), targetTY |-> Whole(300), targetScale |-> Whole(1)],
      [translateX |-> Whole(400), translateY |-> Whole(300), scale |-> Whole(1),
       targetTX |-> Frac(32003, 80), targetTY |-> Frac(9601, 32),
       targetScale |-> FineZoom] }

\* The callback of requestAnimationFrame leaves the world in w2; a frame is
\* no event of the session.
Framed(w2) ==
    /\ Commit(Cur)
    /\ world' = w2
    /\ UNCHANGED << steps, sidebarLeft, contentLeft, burst, debounce >>

AnimateFrame == world.frames > 0 /\ Framed(animate(world))

AnimateWheel == \E mouse \in Cursors :
    /\ ~isDraggingCard
    /\ steps < MaxZooms
    /\ Viewed(Log(Cur, "wheel"), wheel(world, mouse, FineZoom))

AnimateImportLoaded == \E worldState \in FineWorldStates :
    /\ pendingImport.reading
    /\ Viewed(importLoaded(Cur),
              IF "import:rejected" \in Range(importLoaded(Cur).log) THEN world
              ELSE applyWorldState(world, worldState))

NextAnimate ==
    \/ AnimateWheel
    \/ AnimateFrame
    \/ \E mouse \in Cursors :
          ~isDraggingCard /\ ~world.isDragging /\ Viewed(Cur, panStart(world, mouse))
    \/ \E mouse \in Cursors :
          world.isDragging /\ ~isDraggingCard /\ Viewed(Cur, panMove(world, mouse))
    \/ world.isDragging /\ Viewed(Cur, panEnd(world))
    \/ \E file \in ImportFiles :
          ~pendingImport.reading /\ Viewed(importData(Cur, file), world)
    \/ AnimateImportLoaded
    \/ Viewed(reset(Cur), resetWorld(world))

SpecAnimate == Init /\ [][NextAnimate]_vars

\* The browser runs a requested animation frame.
SpecAnimateFair == SpecAnimate /\ WF_vars(AnimateFrame)

\* ------------------------------------------------------------------ properties
\* What a call leaves of the program state, the observation aside.
Program(s) == [s EXCEPT !.log = <<>>]

Last(q) == q[Len(q)]

\* The handlers never run into the exception of Sidebar.open on a missing
\* card: a handler runs to its end.
HandlersComplete == "throw:open" \notin Range(log)

\* C1 -- history linearity: whenever the last three calls of the history
\* manager were saveState(A), a successful undo() and saveState(B), the entries
\* that were after the current index at saveState(B) are gone, B is the last
\* entry and the current one, and redo() returns false and changes nothing.
C1_HistoryLinearity ==
    /\ [][ linPhase = 2 /\ linPhase' = 3 =>
            /\ history' = Append(SubSeq(history, 1, currentIndex + 1), Last(history'))
            /\ currentIndex' = Len(history') - 1
        ]_vars
    /\ [](linPhase = 3 =>
            /\ redo(Cur).log = <<"redo:false">>
            /\ Program(redo(Cur)) = Cur)

\* saveState(A), undo(), saveState(B) have happened and B cut the branch of A.
C1_Witness ==
    /\ linPhase = 3
    /\ "truncate" \in Range(log)
    /\ currentIndex = Len(history) - 1

\* The board equals the snapshot st card for card.
CardsMatch(s, st) ==
    /\ MapKeys(s.cards) = DOMAIN st.cards
    /\ Len(s.cards) = Cardinality(DOMAIN st.cards)
    /\ \A id \in DOMAIN st.cards : MapGet(s.cards, id) = Plain(st.cards[id])

RECURSIVE undoTimes(_, _)
undoTimes(s, n) == IF n = 0 THEN s ELSE undoTimes(undo(s), n - 1)

RECURSIVE redoTimes(_, _)
redoTimes(s, n) == IF n = 0 THEN s ELSE redoTimes(redo(s), n - 1)

\* C2 -- round trip: with N >= 2 entries saved and the last one current,
\* undo() N-1 times and then redo() N-1 times leaves the board's cards, the
\* selection set and the active id equal to the snapshot of the latest entry.
C2_RoundTrip ==
    LET n == Len(history)
        r == redoTimes(undoTimes(Cur, n - 1), n - 1)
        latest == history[n].state
    IN (n >= 2 /\ currentIndex = n - 1) =>
          /\ CardsMatch(r, latest)
          /\ Range(r.selectedCards) = Range(latest.selectedCards)
          /\ r.activeCard = latest.activeCard

\* The round trip restores everything but an active id that the snapshot
\* holds for a card it does not hold.
RoundTripUpToActive ==
    LET n == Len(history)
        r == redoTimes(undoTimes(Cur, n - 1), n - 1)
        latest == history[n].state
    IN (n >= 2 /\ currentIndex = n - 1) =>
          /\ CardsMatch(r, latest)
          /\ Range(r.selectedCards) = Range(latest.selectedCards)
          /\ r.activeCard = IF latest.activeCard \in DOMAIN latest.cards
                            THEN latest.activeCard ELSE NULL

\* The active id names no card of the board: loadCards left it behind.
DanglingActive == activeCard # NULL /\ ~MapHas(cards, activeCard)

SnapshotsSound ==
    \A i \in 1..Len(history) :
        history[i].state.activeCard \in DOMAIN history[i].state.cards \cup {NULL}

\* A snapshot can hold a dangling active id only after the board did.
DanglingOnlyFromLoad ==
    [][ (~DanglingActive /\ DanglingActive') => "loadCards" \in Range(log') ]_vars

Called(e) == e \in Range(log)

\* C5 -- frame of undo and redo: a handler that calls undo() or redo() leaves
\* every history entry and the number of entries as they were; a successful
\* call moves currentIndex by exactly one, a refused call leaves it.
C5_UndoRedoFrame ==
    [][ /\ (Called("undo:true") \/ Called("undo:false")
            \/ Called("redo:true") \/ Called("redo:false"))' => history' = history
        /\ Called("undo:true")' => currentIndex' = currentIndex - 1
        /\ Called("redo:true")' => currentIndex' = currentIndex + 1
        /\ (Called("undo:false") \/ Called("redo:false"))' =>
               currentIndex' = currentIndex
      ]_vars

\* An undo has closed the editing panel over a pending content change, and the
\* request to record that change met the raised flag.
C5_Witness ==
    /\ Called("undo:true")
    /\ Called("saveContentState:suppressed")
    /\ ~isOpen
    /\ currentIndex < Len(history) - 1

\* What an entry stores: its tag, its data and its snapshot's card ids,
\* geometry, content, selected ids and active id.
Stored(entry) ==
    [operation |-> entry.operation, data |-> entry.data,
     cards |-> [id \in DOMAIN entry.state.cards |-> Plain(entry.state.cards[id])],
     selectedCards |-> entry.state.selectedCards,
     activeCard |-> entry.state.activeCard]

\* C6 -- snapshot independence: short of clearHistory, no handler changes an
\* entry that stays in the history (an entry at or before the current index
\* always stays, one after it stays unless a saveState discards it), whatever
\* it does to the live cards, the selection and the active id.
C6_SnapshotIndependence ==
    [][ ~Called("clearHistory")' =>
            \A i \in 1..Len(history) :
                (i <= currentIndex + 1 \/ ~Called("saveState")') =>
                    i <= Len(history') /\ Stored(history'[i]) = Stored(history[i])
      ]_vars

\* A card restored from a snapshot by undo or redo has since been changed on
\* the board, and the snapshot it came from differs from it.
C6_Witness ==
    /\ ~Called("undo:true") /\ ~Called("redo:true")
    /\ currentIndex < Len(history) - 1
    /\ \E id \in MapKeys(cards) \cap DOMAIN history[currentIndex + 1].state.cards :
          MapGet(cards, id) # Plain(history[currentIndex + 1].state.cards[id])

\* C7 -- postcondition of the restore: after a successful undo() or redo() the
\* card map holds exactly the cards of the snapshot at the current index, the
\* selection set is the snapshot's, and the active id is the snapshot's if
\* that card is among the recreated ones; otherwise the active id is null and
\* the editing panel is closed.
C7_ApplyStatePostcondition ==
    (Called("undo:true") \/ Called("redo:true")) =>
        LET snapshot == history[currentIndex + 1].state
        IN /\ CardsMatch(Cur, snapshot)
           /\ Range(selectedCards) = Range(snapshot.selectedCards)
           /\ IF snapshot.activeCard # NULL /\ snapshot.activeCard \in DOMAIN snapshot.cards
              THEN activeCard = snapshot.activeCard
              ELSE activeCard = NULL /\ ~isOpen

\* A restore has met a snapshot whose active id names none of its cards.
C7_Witness ==
    /\ Called("undo:true")
    /\ history[currentIndex + 1].state.activeCard # NULL
    /\ history[currentIndex + 1].state.activeCard
           \notin DOMAIN history[currentIndex + 1].state.cards
    /\ activeCard = NULL

\* The dragged cards whose position on the board differs from the recorded one.
Moved ==
    { id \in Range(pendingDragOperation.cardIds) \cap MapKeys(cards) :
        /\ id \in DOMAIN pendingDragOperation.startPositions
        /\ Pos(MapGet(cards, id)) # pendingDragOperation.startPositions[id] }

\* C8 -- drag gesture: startDragging and updateCardDrag append no history
\* entry; endDragging of a started drag appends exactly one entry if a dragged
\* card's position differs from its recorded starting position and none
\* otherwise; the entry is tagged multi_card_move when more than one card is
\* dragged and card_move when exactly one is.
C8_DragGesture ==
    [][ /\ (Called("startDragging") \/ Called("updateCardDrag"))' =>
              history' = history /\ currentIndex' = currentIndex
        /\ (Called("endDragging")' /\ draggedCard # NULL
            /\ pendingDragOperation.operation # "none") =>
              IF Moved # {}
              THEN /\ history' = Append(SubSeq(history, 1, currentIndex + 1),
                                         Last(history'))
                   /\ currentIndex' = currentIndex + 1
                   /\ Last(history').operation =
                        IF Len(pendingDragOperation.cardIds) > 1
                        THEN "multi_card_move" ELSE "card_move"
              ELSE history' = history /\ currentIndex' = currentIndex
      ]_vars

\* A drag of two selected cards has ended away from where it began and has
\* left its one entry.
C8_Witness ==
    /\ Called("endDragging") /\ Called("saveState")
    /\ Last(history).operation = "multi_card_move"
    /\ Len(Last(history).data.cardIds) = 2
    /\ currentIndex = Len(history) - 1

\* What C10 says stays as it was.
Board(s) ==
    [cards |-> s.cards, selectedCards |-> s.selectedCards,
     activeCard |-> s.activeCard, nextId |-> s.nextId,
     history |-> s.history, currentIndex |-> s.currentIndex]

Called2(s, e) == e \in Range(s.log)

UnknownIds == (1..(MaxId + 1)) \ MapKeys(cards)

Unthrown(s) == ~\E i \in 1..Len(s.log) : s.log[i] \in {"throw", "throw:open"}

\* C10 -- requests that the invariants rule out are no-ops: undo() with
\* currentIndex <= 0 and redo() at the last index return false, updateCard,
\* deleteCard and duplicateCard with an id not on the board do not throw, and
\* each leaves the card map, the selection, the active id, the next-id
\* counter, the history entries and currentIndex as they were.
C10_NoOps ==
    /\ currentIndex <= 0 =>
          Called2(undo(Cur), "undo:false") /\ Board(undo(Cur)) = Board(Cur)
    /\ currentIndex = Len(history) - 1 =>
          Called2(redo(Cur), "redo:false") /\ Board(redo(Cur)) = Board(Cur)
    /\ \A id \in UnknownIds :
          /\ \A content \in EditContents :
                LET u == updateCard(Cur, id, "content", content)
                IN Unthrown(u) /\ Board(u) = Board(Cur)
          /\ \A width \in WidthInputs :
                LET u == updateCard(Cur, id, "width", width)
                IN Unthrown(u) /\ Board(u) = Board(Cur)
          /\ Unthrown(deleteCard(Cur, id))
          /\ Board(deleteCard(Cur, id)) = Board(Cur)
          /\ Unthrown(duplicateCard(Cur, id))
          /\ Board(duplicateCard(Cur, id)) = Board(Cur)

\* The no-ops of C10 but for deleteCard of the id that loadCards left active.
NoOpsButDanglingActive ==
    /\ currentIndex <= 0 =>
          Called2(undo(Cur), "undo:false") /\ Board(undo(Cur)) = Board(Cur)
    /\ currentIndex = Len(history) - 1 =>
          Called2(redo(Cur), "redo:false") /\ Board(redo(Cur)) = Board(Cur)
    /\ \A id \in UnknownIds :
          /\ \A content \in EditContents :
                LET u == updateCard(Cur, id, "content", content)
                IN Unthrown(u) /\ Board(u) = Board(Cur)
          /\ \A width \in WidthInputs :
                LET u == updateCard(Cur, id, "width", width)
                IN Unthrown(u) /\ Board(u) = Board(Cur)
          /\ Unthrown(deleteCard(Cur, id))
          /\ id # activeCard => Board(deleteCard(Cur, id)) = Board(Cur)
          /\ Unthrown(duplicateCard(Cur, id))
          /\ Board(duplicateCard(Cur, id)) = Board(Cur)

\* C3 -- history bounding: the history never holds more than maxHistorySize
\* entries; a saveState on a full history whose last entry is the current one
\* evicts exactly the oldest entry, keeps the others in their order before
\* the new one, and leaves currentIndex, one less than after the append, on
\* the new entry.
C3_HistoryBounded ==
    /\ [](Len(history) <= maxHistorySize)
    /\ [][ (Called("saveState")' /\ currentIndex + 1 = maxHistorySize) =>
              /\ history' = Append(Tail(history), Last(history'))
              /\ currentIndex' = (currentIndex + 1) - 1
              /\ currentIndex' = Len(history') - 1
         ]_vars

\* A saveState has met a full history and evicted.
C3_Witness ==
    /\ Called("evict")
    /\ Len(history) = maxHistorySize
    /\ currentIndex = maxHistorySize - 1

\* C4 -- index in range: currentIndex is within [-1, Len(history) - 1];
\* undo() goes through exactly when currentIndex > 0 and redo() exactly when
\* currentIndex < Len(history) - 1.
C4_IndexInRange ==
    /\ currentIndex \in (-1)..(Len(history) - 1)
    /\ canUndo(Cur) <=> currentIndex > 0
    /\ canRedo(Cur) <=> currentIndex < Len(history) - 1
    /\ Called2(undo(Cur), "undo:true") <=> currentIndex > 0
    /\ Called2(redo(Cur), "redo:true") <=> currentIndex < Len(history) - 1

\* clearHistory has emptied the history: the index is at its lower end.
C4_Witness ==
    /\ Called("clearHistory")
    /\ history = <<>>
    /\ currentIndex = -1

\* C9 -- the flag of the restore: isPerformingUndoRedo is false whenever a
\* handler begins, whichever way applyState was left (to its end, by the
\* early return for a missing snapshot, by an exception of the restore), and
\* no saveState is suppressed.
C9_FlagCleared ==
    /\ ~isPerformingUndoRedo
    /\ ~Called("saveState:suppressed")
    /\ \A f \in Faults \cup {"none"} :
          /\ ~applyState([Cur EXCEPT !.fault = f], NoState).isPerformingUndoRedo
          /\ \A i \in 1..Len(history) :
                ~applyState([Cur EXCEPT !.fault = f],
                            history[i].state).isPerformingUndoRedo

\* An exception has cut an undo short after the board was cleared.
C9_Witness ==
    /\ Called("undo:throw")
    /\ cards = <<>>
    /\ ~isPerformingUndoRedo

\* applyState has returned early for a missing snapshot.
EarlyReturnReached == Called("applyState:return") /\ ~isPerformingUndoRedo

\* The one entry of a burst: appended after the entries up to the current
\* index and made the current one, tagged content_change, comparing the content before the first edit
\* with the content after the last.
BurstEntry ==
    /\ history' = Append(SubSeq(history, 1, currentIndex + 1), Last(history'))
    /\ currentIndex' = currentIndex + 1
    /\ Last(history').operation = "content_change"
    /\ Last(history').data = [cardId |-> burst.cardId,
                              oldContent |-> burst.before,
                              newContent |-> burst.after]

BurstEnds == burst.phase \in {"editing", "settling"} /\ burst'.phase = "done"

BurstGoesOn ==
    burst.phase \in {"editing", "settling"} /\ burst'.phase \in {"editing", "settling"}

\* C11 to the letter -- a burst of edits to one card, begun while no debounce
\* timer is pending and followed by nothing but the passing of time, leaves
\* no entry before its timers have fired and exactly one content_change entry
\* once they have, whose payload is the content before the first edit and
\* the content after the last.
C11_BurstOneEntry ==
    [][ /\ BurstGoesOn => history' = history
        /\ BurstEnds => BurstEntry ]_vars

\* C11 -- debounced content history: a burst of edits to one card that
\* changes its content leaves no entry before its timers have fired and
\* exactly one content_change entry once they have, whose payload is the
\* content before the first edit and the content after the last (a burst that
\* ends on the content it began with is let off its entry).
C11_BurstThatChanges ==
    [][ /\ BurstGoesOn => history' = history
        /\ BurstEnds =>
              IF burst.before # burst.after THEN BurstEntry ELSE history' = history
      ]_vars

\* Where the panel is in step with the board at the first edit, a burst
\* leaves its one entry if it changes the content and none if it does not.
BurstFromSyncedPanel ==
    [][ (BurstEnds /\ burst.synced) =>
            IF burst.before # burst.after THEN BurstEntry ELSE history' = history
      ]_vars

\* A burst of two edits has left its entry.
BurstEntryReached ==
    /\ burst.phase = "done" /\ burst.synced
    /\ Called("saveState")
    /\ Last(history).operation = "content_change"
    /\ Last(history).data.oldContent = burst.before
    /\ Last(history).data.newContent = burst.after

\* A content change waits in the panel's debounce timer.
PendingChange ==
    /\ sidebarTimeout = "pending"
    /\ currentCard.obj # "none"
    /\ lastSavedContent # currentCard.content

\* C12 -- flush on close: when the close button or Escape closes the panel
\* while a content change waits in the panel's debounce timer, the
\* content_change entry of that change (from the panel's baseline to the
\* card's content) is the last and current entry of the history when the
\* handler returns.
C12_FlushOnClose ==
    [][ ((CloseClick \/ KeyEscape) /\ PendingChange) =>
            /\ history' = Append(SubSeq(history, 1, currentIndex + 1), Last(history'))
            /\ currentIndex' = currentIndex + 1
            /\ Last(history').operation = "content_change"
            /\ Last(history').data = [cardId |-> currentCard.id,
                                      oldContent |-> lastSavedContent,
                                      newContent |-> currentCard.content]
      ]_vars

\* What close() does with the change instead: it hands it to the history
\* manager's debounce timer.
CloseDefersChange ==
    [][ ((CloseClick \/ KeyEscape) /\ PendingChange) =>
            /\ history' = history
            /\ contentChangeTimeout' =
                  [pending |-> TRUE, cardId |-> currentCard.id,
                   oldContent |-> lastSavedContent,
                   newContent |-> currentCard.content]
      ]_vars

\* A change that waits in the history manager's timer stays there until the
\* timer's callback writes its entry (clearHistory aside).
ChangeNeverDropped ==
    [][ (contentChangeTimeout.pending
         /\ contentChangeTimeout.oldContent # contentChangeTimeout.newContent
         /\ ~Called("clearHistory")') =>
            \/ contentChangeTimeout' = contentChangeTimeout
            \/ /\ Called("saveState")'
               /\ Last(history').operation = "content_change"
               /\ Last(history').data.oldContent = contentChangeTimeout.oldContent
               /\ Last(history').data.newContent = contentChangeTimeout.newContent
      ]_vars

\* C13 -- selection within the board: every selected id is the id of a card
\* on the board.
C13_SelectionOnBoard == Range(selectedCards) \subseteq MapKeys(cards)

\* A card of a selection of several was deleted and the others stay selected.
C13_SelectedAfterDelete ==
    /\ selectedCards # <<>>
    /\ currentIndex = Len(history) - 1
    /\ Last(history).operation = "delete_cards"
    /\ Called("saveState")

\* C14 -- active within the selection: the active id is null or a member of
\* the selection.
C14_ActiveSelected == activeCard = NULL \/ activeCard \in Range(selectedCards)

\* The active id leaves the selection only in a handler that calls loadCards
\* (import, reset), which empties the selection and keeps the active id, or
\* in the restore of a snapshot taken after such a handler.
ActiveUnselectedOnlyFromLoad ==
    [][ (C14_ActiveSelected /\ ~C14_ActiveSelected') =>
            \/ Called("loadCards")'
            \/ /\ Called("undo:true")' \/ Called("redo:true")'
               /\ LET st == history[currentIndex' + 1].state
                  IN st.activeCard # NULL
                     /\ st.activeCard \notin Range(st.selectedCards)
      ]_vars

SnapshotsActiveSelected ==
    \A i \in 1..Len(history) :
        \/ history[i].state.activeCard = NULL
        \/ history[i].state.activeCard \in Range(history[i].state.selectedCards)

\* A snapshot holds an unselected active id only when the board did, or
\* when a loadCards came before.
SnapshotUnselectedOnlyFromLoad ==
    [][ (SnapshotsActiveSelected /\ ~SnapshotsActiveSelected') =>
            ~C14_ActiveSelected \/ Called("loadCards")' ]_vars

\* Every id a card has held is below the counter.
IdsBelowCounter == \A id \in everIds \cup MapKeys(cards) : id < nextId

\* The handler restored or loaded cards rather than created them.
BroughtBack == Called("undo:true") \/ Called("redo:true") \/ Called("loadCards")

\* C15 -- ids unique and never reused: the counter never decreases, every
\* card of the board (and every id ever held) is below it, no two cards of
\* the board share an id, and the ids that a handler creating or duplicating
\* cards adds to the board were held by no card earlier in the session.
C15_IdsNeverReused ==
    /\ []IdsBelowCounter
    /\ [][ /\ nextId' >= nextId
           /\ Cardinality(MapKeys(cards')) = Len(cards')
           /\ ~BroughtBack' =>
                 (MapKeys(cards') \ MapKeys(cards)) \cap everIds = {}
         ]_vars

\* A card was created with a new id after a card of a lower id had left
\* the board.
C15_FreshAfterRemoval ==
    /\ Called("saveState")
    /\ currentIndex = Len(history) - 1
    /\ Last(history).operation \in {"create_card", "duplicate_card", "duplicate_cards"}
    /\ nextId - 1 \in MapKeys(cards)
    /\ \E gone \in everIds \ MapKeys(cards) : gone < nextId - 1

\* The same after an undo took the card of the highest id off the board.
FreshAfterUndo ==
    /\ C15_FreshAfterRemoval
    /\ nextId - 2 \in everIds \ MapKeys(cards)
    /\ nextId - 3 \in MapKeys(cards)

\* C16 -- single select: in every reachable state, selectCard(id, false) on
\* a card of the board leaves the selection equal to exactly {id} and the
\* active id equal to id.
C16_SingleSelect ==
    \A id \in MapKeys(cards) :
        LET r == selectCard(Cur, id, FALSE)
        IN /\ Range(r.selectedCards) = {id}
           /\ Len(r.selectedCards) = 1
           /\ r.activeCard = id

\* Several cards are selected and a single select of one that is not the
\* active one replaces the selection.
C16_FromMultiSelection ==
    /\ Len(selectedCards) >= 2
    /\ \E id \in Range(selectedCards) :
          /\ id # activeCard
          /\ selectCard(Cur, id, FALSE).selectedCards = <<id>>
          /\ selectCard(Cur, id, FALSE).activeCard = id

\* The position of a selected id in the insertion order of the selection.
Position(q, e) == CHOOSE i \in 1..Len(q) : q[i] = e

\* C17 -- multi-select toggle: in every reachable state, selectCard(id, true)
\* on a card of the board that was not selected adds it to the selection and
\* makes it active; on a selected card it removes it and leaves every other
\* member selected, the active id becoming, if id was active, the remaining
\* member that was selected first (null if none remains), and staying as
\* it was if id was not active.
C17_MultiSelectToggle ==
    \A id \in MapKeys(cards) :
        LET r == selectCard(Cur, id, TRUE)
            before == Range(selectedCards)
            after == Range(r.selectedCards)
        IN IF id \notin before
           THEN after = before \cup {id} /\ r.activeCard = id
           ELSE /\ after = before \ {id}
                /\ IF activeCard # id THEN r.activeCard = activeCard
                   ELSE IF after = {} THEN r.activeCard = NULL
                   ELSE /\ r.activeCard \in after
                        /\ \A other \in after :
                              Position(selectedCards, r.activeCard)
                                  <= Position(selectedCards, other)

\* Three cards are selected, the active one is not the first of them, and
\* the toggle of the active one makes the first one active.
C17_ActivityToFirst ==
    /\ Len(selectedCards) >= 3
    /\ activeCard \in Range(selectedCards)
    /\ activeCard # selectedCards[1]
    /\ selectCard(Cur, activeCard, TRUE).activeCard = selectedCards[1]
    /\ activeCard \notin Range(selectCard(Cur, activeCard, TRUE).selectedCards)

\* A card that is not selected is added to a selection and becomes active.
ToggleAdds ==
    /\ selectedCards # <<>>
    /\ \E id \in MapKeys(cards) \ Range(selectedCards) :
          /\ Range(selectCard(Cur, id, TRUE).selectedCards) = Range(selectedCards) \cup {id}
          /\ selectCard(Cur, id, TRUE).activeCard = id

\* The selection holds the active card and nothing else.
OnlyActive(s) ==
    Range(s.selectedCards) = IF s.activeCard # NULL THEN {s.activeCard} ELSE {}

\* C18 to the letter -- in every reachable state, the release of the
\* modifier (or the window's blur) leaves the selection equal to {active}
\* when an active card exists and empty otherwise.
C18_CollapseAlways == OnlyActive(keyUp(Cur))

\* C18 -- collapse of a multi-selection: in every reachable state, the
\* release of the modifier (or the window's blur) leaves the active id as it
\* was; a selection of more than one card becomes {active} when an active
\* card exists and empty otherwise; a selection of at most one card is left
\* as it was, whether its card is active or not.
C18_CollapseOfSeveral ==
    LET r == keyUp(Cur)
    IN /\ r.activeCard = activeCard
       /\ ~r.isCtrlPressed
       /\ IF Len(selectedCards) > 1 THEN OnlyActive(r)
          ELSE r.selectedCards = selectedCards

\* Two cards are selected, one of them active, and the release leaves the
\* active one alone selected.
C18_CollapsedToActive ==
    /\ Len(selectedCards) > 1
    /\ activeCard \in Range(selectedCards)
    /\ keyUp(Cur).selectedCards = <<activeCard>>

\* Two cards are selected, none active, and the release empties the selection.
CollapsedToNone ==
    /\ Len(selectedCards) > 1
    /\ activeCard = NULL
    /\ keyUp(Cur).selectedCards = <<>>

\* One card is selected and not active (the panel was closed), and the
\* release leaves it selected.
SingleKeptSelected ==
    /\ Len(selectedCards) = 1
    /\ activeCard = NULL
    /\ keyUp(Cur).selectedCards = selectedCards

\* The copy that duplication makes of a card, under the id newId.
CopyOf(c, newId) ==
    Card(newId, c.x + DuplicateOffset, c.y + DuplicateOffset, c.width, c.height,
         c.content)

\* C20 -- duplication of a selection: Ctrl/Cmd+D with k >= 1 selected cards
\* adds exactly k cards, one per selected card, under distinct ids that no
\* card held before, each equal to its original but for the id and for x and
\* y moved by DuplicateOffset; every card that was on the board is unchanged;
\* exactly one history entry is appended, after the current one.
C20_DuplicateSelection ==
    [][ (WideKeyDuplicate /\ Len(selectedCards) >= 1) =>
          LET added == MapKeys(cards') \ MapKeys(cards)
              chosen == Range(selectedCards)
          IN /\ Len(cards') = Len(cards) + Len(selectedCards)
             /\ Cardinality(added) = Len(selectedCards)
             /\ added \cap everIds = {}
             /\ \A id \in MapKeys(cards) :
                   MapHas(cards', id) /\ MapGet(cards', id) = MapGet(cards, id)
             /\ \E copy \in [chosen -> added] :
                   /\ \A a, b \in chosen : copy[a] = copy[b] => a = b
                   /\ \A id \in chosen :
                         MapGet(cards', copy[id]) = CopyOf(MapGet(cards, id), copy[id])
             /\ history' = Append(SubSeq(history, 1, currentIndex + 1), Last(history'))
             /\ currentIndex' = currentIndex + 1
             /\ Last(history').operation = "duplicate_cards"
      ]_vars

\* Two selected cards were duplicated by the key: the board holds four
\* cards and the entry of the duplication is the current one.
C20_TwoDuplicated ==
    /\ Called("saveState")
    /\ currentIndex = Len(history) - 1
    /\ Last(history).operation = "duplicate_cards"
    /\ Len(Last(history).data.cardIds) = 2
    /\ Len(cards) = 4

\* The cards of the board as a stored list holds them.
BoardList(s) == [i \in 1..Len(s.cards) |-> Plain(s.cards[i])]

\* C19 -- deleteCard: in every reachable state and for every card id of the
\* board, deleteCard(id) takes exactly that card off the board and off the
\* selection and leaves every other card as it was; if id was the active
\* card the active id becomes null and the panel is closed, otherwise the
\* active id is unchanged; the auto-save timer is set and, when its callback
\* runs, the stored card list is the list of the remaining cards.
C19_DeleteCard ==
    \A id \in MapKeys(cards) :
        LET r == deleteCard(Cur, id)
            p == autoSaveCallback(r)
        IN /\ MapKeys(r.cards) = MapKeys(cards) \ {id}
           /\ Len(r.cards) = Len(cards) - 1
           /\ \A other \in MapKeys(r.cards) :
                 MapGet(r.cards, other) = MapGet(cards, other)
           /\ Range(r.selectedCards) = Range(selectedCards) \ {id}
           /\ IF activeCard = id
              THEN r.activeCard = NULL /\ ~r.isOpen
              ELSE r.activeCard = activeCard
           /\ r.autoSaveTimeout.pending
           /\ p.persisted.saved
           /\ p.persisted.cards = BoardList(r)
           /\ Len(cards) = 1 => p.persisted.cards = <<>>

\* The only card was deleted while active and the auto-save timer has run:
\* no card is active, the panel is closed, the stored list is empty.
C19_OnlyCardDeleted ==
    /\ cards = <<>>
    /\ activeCard = NULL
    /\ ~isOpen
    /\ currentIndex = Len(history) - 1
    /\ Last(history).operation = "delete_cards"
    /\ Last(history).state.activeCard # NULL
    /\ ~autoSaveTimeout.pending
    /\ persisted = [saved |-> TRUE, cards |-> <<>>]

\* The auto-save timer holds the card objects of the board (not the data
\* of the default card, nor objects that a load has since replaced).
TimerHoldsBoardObjects ==
    /\ autoSaveTimeout.pending
    /\ \A i \in 1..Len(autoSaveTimeout.cards) : autoSaveTimeout.cards[i].obj = "live"
    /\ ~pendingImport.reading
    /\ \A i \in 1..Len(history) : history[i].operation # "import_data"

\* Whatever happens between the request and the run of the timer, the list
\* written is the list of the cards of the board at that time.
AutoSaveStoresBoard ==
    [][ (AutoSaveTimer /\ TimerHoldsBoardObjects)
            => persisted'.cards = BoardList(Cur) ]_vars

\* A file imported while the timer is set is overwritten in the storage by
\* the list the timer holds.
ImportKeptInStorage ==
    [][ (AutoSaveTimer /\ ~TimerHoldsBoardObjects
           /\ Len(autoSaveTimeout.cards) # Len(cards))
            => persisted'.cards = BoardList(Cur) ]_vars

\* The difference of the positions of two cards in a map of positions.
Apart(p, a, b) == [x |-> p[a].x - p[b].x, y |-> p[a].y - p[b].y]

BoardPositions(m) == [id \in MapKeys(m) |-> Pos(MapGet(m, id))]

\* C21 -- multi-drag rigidity: after every updateCardDrag of a drag of
\* several cards, with or without snapping, the positions of any two dragged
\* cards differ by what they differed by in the positions recorded at drag
\* start, and endDragging moves no card.
C21_MultiDragRigidity ==
    [][ /\ Called("updateCardDrag")' =>
              \A a, b \in (DOMAIN multiDragOffsets
                             \cap DOMAIN pendingDragOperation.startPositions)
                             \cap MapKeys(cards') :
                  Apart(BoardPositions(cards'), a, b) =
                      Apart(pendingDragOperation.startPositions, a, b)
        /\ Called("endDragging")' =>
              BoardPositions(cards') = BoardPositions(cards) ]_vars

\* Cards 2 and 3 are dragged with the pointer pressed at x = 2: unsnapped,
\* card 2 would be at 303, 305 or 308; snapped to the right edge of card 1 it
\* is at 300, and card 3 has moved by the same five pixels.
C21_SnappedGroup ==
    /\ Called("updateCardDrag")
    /\ DOMAIN multiDragOffsets = {2, 3}
    /\ multiDragOffsets[2].x = 2 - 305
    /\ MapGet(cards, 2).x = 300
    /\ MapGet(cards, 3).x = pendingDragOperation.startPositions[3].x - 5

\* The cards moved by updateCardDrag: the keys of multiDragOffsets, or the
\* dragged card alone when that map is empty.
Dragged(s) ==
    IF DOMAIN s.multiDragOffsets # {} THEN DOMAIN s.multiDragOffsets
    ELSE {s.draggedCard}

\* The cards applySnapping compares with: those of the board outside the
\* excludeCards that updateCardDrag passes.
SnapTargets(s) ==
    MapKeys(s.cards) \ (IF DOMAIN s.multiDragOffsets # {}
                        THEN Range(s.selectedCards) ELSE {s.draggedCard})

\* C22 -- snap targets: on every updateCardDrag the cards the dragged card is
\* snapped against are exactly the cards of the board that are not dragged in
\* the gesture, whatever happened to the selection since the drag started.
C22_SnapTargetsStationary ==
    [][ SnapMouseMove => SnapTargets(Cur) = MapKeys(cards) \ Dragged(Cur) ]_vars

\* What updateCardDrag does to the positions when only the cards that are not
\* dragged are snap targets.
C22_DraggedNeverSnapToDragged ==
    [][ SnapMouseMove /\ draggedCard \in DOMAIN multiDragOffsets =>
          \E mouse \in DragPointers :
              LET offset == multiDragOffsets[draggedCard]
                  newX == mouse.x - offset.x
                  newY == mouse.y - offset.y
                  snapped == applySnapping(Cur, newX, newY,
                                           MapGet(cards, draggedCard),
                                           DOMAIN multiDragOffsets)
              IN Pos(MapGet(cards', draggedCard)) = [x |-> snapped.x, y |-> snapped.y]
      ]_vars

\* The extent of a card on each axis, its height being the rendered one.
XExtent(c) == [lo |-> c.x, size |-> c.width]

YExtent(c) == [lo |-> c.y, size |-> offsetHeight(c)]

\* The cards of the board that are not in excludeCards, in insertion order.
Stationary(s, excludeCards) ==
    SelectSeq(s.cards, LAMBDA c : c.id \notin excludeCards)

\* The alignments of one axis in the order applySnapping goes through them:
\* card by card, and for each card low edge to low edge, low to high, high
\* to low, high to high. extents are those of the stationary cards, pos and
\* size the dragged card's.
Candidates(extents, pos, size) ==
    [k \in 1..(4 * Len(extents)) |->
        LET e == extents[((k - 1) \div 4) + 1]
            draggedPos == IF (k - 1) % 4 \in {0, 1} THEN pos ELSE pos + size
            targetPos == IF (k - 1) % 4 \in {0, 2} THEN e.lo ELSE e.lo + e.size
        IN [dist |-> Abs(draggedPos - targetPos), draggedPos |-> draggedPos,
            targetPos |-> targetPos]]

XCandidates(s, x, dragged, excludeCards) ==
    LET st == Stationary(s, excludeCards)
    IN Candidates([i \in 1..Len(st) |-> XExtent(st[i])], x, dragged.width)

YCandidates(s, y, dragged, excludeCards) ==
    LET st == Stationary(s, excludeCards)
    IN Candidates([i \in 1..Len(st) |-> YExtent(st[i])], y, offsetHeight(dragged))

\* The places a dragged card is tried at, relative to where it lies.
SnapOffsetsX == {-6, -5, -4, -3, -2, 0, 2, 4, 5, 6}

SnapOffsetsY == {-5, -2, 0, 2, 4}

NoneNear(cands) == \A k \in DOMAIN cands : cands[k].dist >= SNAP_DISTANCE

\* C23 -- snap threshold: for every board reached, every card of it taken as
\* the dragged card and every place tried, an axis on which every edge
\* alignment with every stationary card is at distance SNAP_DISTANCE or more
\* comes back from applySnapping unmodified and with no snap line, whatever
\* happens on the other axis.
C23_SnapThreshold ==
    \A id \in MapKeys(cards), dx \in SnapOffsetsX, dy \in SnapOffsetsY :
        LET c == MapGet(cards, id)
            x == c.x + dx
            y == c.y + dy
            r == applySnapping(Cur, x, y, c, {id})
        IN /\ NoneNear(XCandidates(Cur, x, c, {id})) =>
                  r.x = x /\ r.snapLineX = NoLine
           /\ NoneNear(YCandidates(Cur, y, c, {id})) =>
                  r.y = y /\ r.snapLineY = NoLine

\* Card 2 alone, pressed at y = 2 and so tried at y = -2 or y = 0, has been
\* dragged to x = 305, five pixels from the right edge of card 1 and eight
\* from the left edge of card 3, and was left there, its top edge being at
\* the top edge of card 1.
C23_LeftAtThreshold ==
    /\ Called("updateCardDrag")
    /\ DOMAIN multiDragOffsets = {2}
    /\ multiDragOffsets[2].y = 2
    /\ Pos(MapGet(cards, 1)) = [x |-> 0, y |-> 0]
    /\ Pos(MapGet(cards, 3)) = [x |-> 613, y |-> 104]
    /\ Pos(MapGet(cards, 2)) = [x |-> 305, y |-> 0]

\* The alignment that wins: the nearest, and among equally near ones the
\* first in the order of iteration.
Winner(cands) ==
    CHOOSE k \in DOMAIN cands :
        /\ cands[k].dist < SNAP_DISTANCE
        /\ \A j \in DOMAIN cands :
              cands[j].dist > cands[k].dist \/ (cands[j].dist = cands[k].dist /\ j >= k)

\* What the claim says of one axis: the coordinate moved so that the winning
\* alignment is exact, the snap line at the target edge, the shift below
\* SNAP_DISTANCE.
SnappedTo(cands, pos, result, line) ==
    LET w == cands[Winner(cands)]
    IN /\ result = pos + (w.targetPos - w.draggedPos)
       /\ w.draggedPos + (result - pos) = w.targetPos
       /\ line = [set |-> TRUE, at |-> w.targetPos]
       /\ Abs(result - pos) < SNAP_DISTANCE

\* C24 -- snap winner: for every board reached, every card of it taken as
\* the dragged card and every place tried, an axis with an edge alignment
\* nearer than SNAP_DISTANCE is snapped to the nearest alignment over all
\* stationary cards, the first in iteration order among equally near ones.
C24_SnapWinner ==
    \A id \in MapKeys(cards), dx \in SnapOffsetsX, dy \in SnapOffsetsY :
        LET c == MapGet(cards, id)
            x == c.x + dx
            y == c.y + dy
            r == applySnapping(Cur, x, y, c, {id})
            xs == XCandidates(Cur, x, c, {id})
            ys == YCandidates(Cur, y, c, {id})
        IN /\ ~NoneNear(xs) => SnappedTo(xs, x, r.x, r.snapLineX)
           /\ ~NoneNear(ys) => SnappedTo(ys, y, r.y, r.snapLineY)

\* Card 2 alone, pressed at x = 2 and so tried at 303, 305 or 308, has been
\* snapped to the right edge of card 1 at 300.
C24_SnappedToNearest ==
    /\ Called("updateCardDrag")
    /\ DOMAIN multiDragOffsets = {2}
    /\ multiDragOffsets[2].x = 2 - 305
    /\ Pos(MapGet(cards, 1)) = [x |-> 0, y |-> 0]
    /\ MapGet(cards, 2).x = 300

\* Two alignments with different targets are equally near and nearer than
\* SNAP_DISTANCE.
TieOf(cands) ==
    \E j, k \in DOMAIN cands :
        /\ cands[j].dist = cands[k].dist /\ cands[j].dist < SNAP_DISTANCE
        /\ cands[j].targetPos - cands[j].draggedPos #
              cands[k].targetPos - cands[k].draggedPos
        /\ \A i \in DOMAIN cands : cands[i].dist >= cands[j].dist

\* What an import must leave alone when it is rejected.
Kept(s) ==
    [cards |-> s.cards, selectedCards |-> s.selectedCards,
     activeCard |-> s.activeCard, persisted |-> s.persisted]

\* C25 -- malformed import: neither the start of the import of a document
\* without a cards array nor its rejection when the file is read changes
\* the card map, the selection, the active id or what is in storage.
C25_MalformedImportRejected ==
    [][ /\ (Drop /\ ~pendingImport'.valid) => Kept(Cur)' = Kept(Cur)
        /\ (ImportLoaded /\ ~pendingImport.valid) =>
              Called("import:rejected")' /\ Kept(Cur)' = Kept(Cur) ]_vars

\* A document without a cards array has been rejected on a board of two
\* cards, one of them selected and active, with a card list in storage.
C25_RejectedOnBoard ==
    /\ Called("import:rejected")
    /\ ~Called("loadCards")
    /\ Len(cards) = 2
    /\ activeCard # NULL
    /\ persisted.saved

\* C26 -- no partial load: a rejected import leaves the cards of the board
\* and what is in storage as they were when the file was read.
C26_NoPartialLoad ==
    [][ Called("import:rejected")' =>
          cards' = cards /\ persisted' = persisted ]_vars

\* C27 -- debounce: at most one auto-save timer is pending; saveCards, in
\* whatever state it is called, writes nothing and leaves exactly one timer,
\* due after the full delay and holding the list it was given; the timer
\* writes when exactly that delay has passed since the last call of
\* saveCards, once, and what it writes is the list given to that call.
C27_Debounce ==
    /\ [](/\ Cardinality(pendingTimers(Cur)) <= 1
          /\ debounce.writes <= 1
          /\ debounce.armed => debounce.since <= TicksPerDelay
          /\ LET r == saveCards(Cur, getAllCards(Cur))
             IN /\ pendingTimers(r) = {0}
                /\ timerLeft(r, 0) = TicksPerDelay
                /\ r.autoSaveTimeout.cards = getAllCards(Cur)
                /\ r.persisted = persisted)
    /\ [][ /\ DebounceTimer =>
                /\ debounce.armed /\ debounce.since = TicksPerDelay
                /\ persisted' = [saved |-> TRUE,
                                 cards |-> [i \in 1..Len(autoSaveTimeout.cards) |->
                                               Plain(autoSaveTimeout.cards[i])]]
                /\ pendingTimers(Cur)' = {}
           /\ (~DebounceTimer /\ ~Called("loadCards")' /\ ~Called("clearHistory")') =>
                persisted' = persisted ]_vars

\* The timer has written the two cards of the board: the default card, whose
\* saveCards was followed within the delay by that of Ctrl+N.
C27_OneWriteForTwoCalls ==
    /\ Called("autoSave")
    /\ debounce.calls = 2
    /\ debounce.writes = 1
    /\ persisted.saved
    /\ Len(persisted.cards) = 2
    /\ Len(history) = 2

\* No auto-save timer is pending, no file is being read and no card is
\* being dragged.
Quiescent ==
    pendingTimers(Cur) = {} /\ ~pendingImport.reading /\ ~isDraggingCard

\* C28 -- eventual persistence: as long as no import is rejected, once
\* every pending timer has fired the card list in storage is the card list
\* of the board.
C28_EventualPersistence ==
    \/ <>Called("import:rejected")
    \/ [](Quiescent => persisted.saved /\ persisted.cards = BoardList(Cur))

\* Without an import the card list in storage is the card list of the board
\* whenever no timer is pending.
PersistenceWithoutImport ==
    \/ <>pendingImport.reading
    \/ [](Quiescent => persisted.saved /\ persisted.cards = BoardList(Cur))

InScaleRange(a) == ~Less(a, MIN_SCALE) /\ ~Less(MAX_SCALE, a)

\* C29 -- scale bounds: in every reachable state the scale and the target
\* scale of the world are within [MIN_SCALE, MAX_SCALE].
C29_ScaleBounds == InScaleRange(world.scale) /\ InScaleRange(world.targetScale)

\* Short of the import of a world state, the scales stay in their range.
ScaleBoundsButImport ==
    [][ (InScaleRange(world.scale) /\ InScaleRange(world.targetScale)
         /\ ~WorldImportLoaded) =>
          (InScaleRange(world.scale) /\ InScaleRange(world.targetScale))' ]_vars

\* C30 -- zoom anchoring: after a wheel zoom at a cursor, the world point
\* that the target transform maps to the cursor is the world point that
\* screenToWorld gave for the cursor before the zoom.
C30_ZoomAnchoring ==
    [][ \A mouse \in Cursors, zoom \in ZoomFactors :
          (Called("wheel")' /\ world' = wheel(world, mouse, zoom)) =>
              targetToWorld(world', mouse) = screenToWorld(world, mouse) ]_vars

\* What the wheel listener keeps in place is the point of the target
\* transform.
TargetAnchoring ==
    [][ \A mouse \in Cursors, zoom \in ZoomFactors :
          (Called("wheel")' /\ world' = wheel(world, mouse, zoom)) =>
              targetToWorld(world', mouse) = targetToWorld(world, mouse) ]_vars

\* C31 -- one animation loop: at most one animation-frame callback of the
\* world is pending, it is pending exactly when rafId holds a request, and a
\* wheel event that arrives while one is pending requests no other.
C31_SingleLoop ==
    /\ world.frames <= 1
    /\ world.rafId <=> world.frames = 1

\* A wheel event arrived while the loop was running: the frame before it
\* had moved the scale away from the one of the constructor and had asked
\* for the next frame.
C31_WheelWhileActive ==
    /\ Called("wheel")
    /\ world.frames = 1
    /\ world.scale # Whole(1)
    /\ world.scale # world.targetScale

\* A wheel event never adds a callback to a loop that runs.
WheelKeepsLoop ==
    [][ (world.rafId /\ Called("wheel")') => world'.frames = world.frames ]_vars

\* The stopping test of animate() fails: a translate or the scale is at
\* least its epsilon away from its target.
Away(w) ==
    \/ ~Less(Size(Minus(w.targetTX, w.translateX)), Frac(1, 100))
    \/ ~Less(Size(Minus(w.targetTY, w.translateY)), Frac(1, 100))
    \/ ~Less(Size(Minus(w.targetScale, w.scale)), Frac(1, 10000))

\* C32 -- no idle loop away from the target: whenever the translate or the
\* scale of the world is at least the stopping epsilon away from its target,
\* an animation frame is pending.
C32_KickedWhenAway == Away(world) => world.frames > 0

\* Short of the application of a stored world state, every event that leaves
\* the world away from its targets leaves a frame pending.
KickedButImport ==
    [][ ((Away(world) => world.frames > 0) /\ ~WorldImportLoaded) =>
          (Away(world) => world.frames > 0)' ]_vars

\* The distance to the target of the translate or the scale named.
Gap(w, field, target) == Size(Minus(w[target], w[field]))

\* From w to w2 the value named has come no farther from its target and has
\* not passed it.
Approaches(w, w2, field, target) ==
    /\ ~Less(Gap(w, field, target), Gap(w2, field, target))
    /\ \/ w2[field] = w2[target]
       \/ Less(w[field], w[target]) /\ Less(w2[field], w2[target])
       \/ Less(w[target], w[field]) /\ Less(w2[target], w2[field])

\* No frame is requested and the view is within the epsilons of its targets.
AtRest == ~world.rafId /\ ~Away(world)

\* A frame is requested.
LoopRuns == world.frames > 0

\* C33 -- animation termination: with no further input the loop comes to a
\* stop, rafId null, with the translate and the scale within the epsilons of
\* their targets, and stays there.
C33_AnimationTerminates == <>[]AtRest

\* A loop that runs comes to a stop within the epsilons of the targets.
TerminatesOnceKicked == LoopRuns ~> AtRest

\* Short of the application of a stored world state the view ends within
\* the epsilons of its targets.
TerminatesWithoutImport ==
    \/ <>pendingImport.reading
    \/ <>[]AtRest

\* Every frame brings tx, ty and the scale no farther from their targets
\* and never past them.
TicksApproach ==
    [][ (world.frames > 0 /\ world' = animate(world)) =>
          /\ Approaches(world, world', "translateX", "targetTX")
          /\ Approaches(world, world', "translateY", "targetTY")
          /\ Approaches(world, world', "scale", "targetScale") ]_vars

\* C34 -- one Escape, one operation: an Escape pressed while the panel is
\* open closes the panel and leaves the selection set as it was.
C34_EscapeClosesOnly ==
    [][ (KeyEscape /\ isOpen) =>
          (~isOpen' /\ selectedCards' = selectedCards) ]_vars

\* An Escape pressed while the panel is closed clears the selection, and one
\* pressed while it is open closes it.
EscapeClears ==
    [][ KeyEscape => (~isOpen' /\ selectedCards' = <<>> /\ activeCard' = NULL) ]_vars

\* The card records of the board.
Records(s) == Range(BoardList(s))

\* The handlers that ask for a history entry and change the board in the
\* same call, run in the current state: Ctrl+N, Ctrl+D, Delete, and the
\* mouseup that ends a drag.
RecordedActions ==
    { addNewCard(Cur), keyDuplicate(ctrlKeyDown(Cur)), keyDelete(Cur),
      endDragging(Cur) }

\* C35 -- one undo, one action: an undo() right after an operation that
\* recorded history leaves the card records of the board as they were right
\* before that operation.
C35_UndoRevertsLast ==
    \A s1 \in RecordedActions :
        Called2(s1, "saveState") => Records(undo(s1)) = Records(Cur)

\* An undo() right after the first recorded operation of a session brings
\* the card records back.
UndoRevertsFirst ==
    \A s1 \in RecordedActions :
        (Called2(s1, "saveState") /\ Len(history) = 1 /\ currentIndex = 0
           /\ CardsMatch(Cur, history[1].state)) =>
            Records(undo(s1)) = Records(Cur)

\* C36 -- undo then redo: where undo() succeeds, undo() followed at once by
\* redo() leaves the card records of the board as they were before the undo.
C36_UndoRedoIdentity ==
    canUndo(Cur) => Records(redo(undo(Cur))) = Records(Cur)

\* undo() followed by redo() leaves the cards of the entry at currentIndex.
UndoRedoRestoresEntry ==
    (canUndo(Cur) /\ ~restoreThrows(Cur, history[currentIndex + 1].state)
        /\ ~restoreThrows(Cur, history[currentIndex].state)) =>
        CardsMatch(redo(undo(Cur)), history[currentIndex + 1].state)

\* What the timers pending in s leave when they fire: the timer of the
\* history manager, the timer of the panel followed by the timer of the
\* history manager that its callback sets, and the auto-save timers.
TimerRuns(s) ==
    { contentTimerCallback(s1) :
        s1 \in { s2 \in {s} : s2.contentChangeTimeout.pending } }
    \cup { contentTimerCallback(s1) :
        s1 \in { s2 \in { sidebarTimerCallback(s3) :
                          s3 \in { s4 \in {s} : s4.sidebarTimeout = "pending" } } :
                 s2.contentChangeTimeout.pending } }
    \cup { timerCallback(s, k) : k \in pendingTimers(s) }

\* C37 -- redo survives the timers: right after a successful undo no timer
\* that is pending appends a history entry or moves currentIndex when it
\* fires, so redo stays available.
C37_RedoSurvivesTimers ==
    Called("undo:true") =>
        \A s1 \in TimerRuns(Cur) :
            s1.history = history /\ s1.currentIndex = currentIndex

\* The callback of the panel's timer and the one of the auto-save timer
\* leave the history alone.
PanelAndStorageTimersKeepHistory ==
    /\ sidebarTimeout = "pending" =>
          /\ sidebarTimerCallback(Cur).history = history
          /\ sidebarTimerCallback(Cur).currentIndex = currentIndex
    /\ \A k \in pendingTimers(Cur) :
          /\ timerCallback(Cur, k).history = history
          /\ timerCallback(Cur, k).currentIndex = currentIndex

\* The document being read will be rejected: it has no cards array, or an
\* entry of it is null.
Rejects(p) == ~p.valid \/ NullEntry \in Range(p.cards)

\* C38 -- a rejected import keeps the history: neither the call of
\* importData with a document that is rejected nor the rejection changes
\* the entries or currentIndex.
C38_RejectedImportKeepsHistory ==
    [][ /\ (Drop /\ Rejects(pendingImport')) =>
              (history' = history /\ currentIndex' = currentIndex)
        /\ (ImportLoaded /\ Called("import:rejected")') =>
              (history' = history /\ currentIndex' = currentIndex) ]_vars

\* The rejection itself, when the file has been read, keeps the history.
RejectionKeepsHistory ==
    [][ (ImportLoaded /\ Called("import:rejected")') =>
          (history' = history /\ currentIndex' = currentIndex) ]_vars

\* The gesture of a click on the drag handle of card id, the pointer at
\* mouse and not moved: mousedown, mouseup, click.
clickGesture(s, id, mouse) ==
    selectCard(endDragging(mouseDown(s, id, mouse)), id, s.isCtrlPressed)

\* C39 -- modifier click on a drag handle: with the modifier held, the
\* gesture on an unselected card ends with the card selected and active and
\* with every card selected before still selected.
C39_ModifierClickSelects ==
    \A id \in MapKeys(cards), mouse \in Pointers :
        (isCtrlPressed /\ ~isDraggingCard /\ id \notin Range(selectedCards)) =>
            LET s3 == clickGesture(Cur, id, mouse)
            IN /\ id \in Range(s3.selectedCards)
               /\ s3.activeCard = id
               /\ Range(selectedCards) \subseteq Range(s3.selectedCards)

\* The mousedown of the gesture alone does what the claim says of the
\* gesture.
MouseDownSelects ==
    \A id \in MapKeys(cards), mouse \in Pointers :
        (isCtrlPressed /\ ~isDraggingCard /\ id \notin Range(selectedCards)) =>
            LET s1 == mouseDown(Cur, id, mouse)
            IN /\ id \in Range(s1.selectedCards)
               /\ s1.activeCard = id
               /\ Range(selectedCards) \subseteq Range(s1.selectedCards)

\* C40 -- the panel follows the active card: the editing panel is open
\* exactly when there is an active card, and an open panel holds the card of
\* the board that has the active id.
C40_PanelFollowsActive ==
    /\ isOpen <=> activeCard # NULL
    /\ isOpen => /\ currentCard.obj # "none"
                 /\ currentCard.id = activeCard
                 /\ MapHas(cards, currentCard.id)

\* An open panel holds a card object.
OpenPanelHoldsCard == isOpen => currentCard.obj # "none"

====
